---- MODULE Spec2Model ----
(***************************************************************************)
(* A model of the single-pass bytecode compiler of clox (src/compiler.c).  *)
(* The recursive-descent functions are run on an explicit control stack:   *)
(* every frame of `stack` is one activation of a C function, `pc` is the   *)
(* point after its last call that has not returned yet, `v` its C locals.  *)
(* A function that never calls back into the parser is an operator from    *)
(* compiler state to compiler state.  Line numbers of tokens and of chunk  *)
(* bytes only feed the text of the messages and are left out.              *)
(***************************************************************************)
EXTENDS Integers, Sequences, FiniteSets, TLC

VARIABLES
    source,          \* the tokens scanToken() yields for the text given to compile()
    scanPos,         \* number of tokens the scanner has handed out
    parser,          \* Parser parser: current, previous, hadError, panicMode
    compilers,       \* every Compiler struct created so far, by address (1..)
    current,         \* Compiler* current (0 is NULL)
    classCompilers,  \* every ClassCompiler struct created so far, by address
    currentClass,    \* ClassCompiler* currentClass (0 is NULL)
    functions,       \* the ObjFunction heap objects, by address
    stack,           \* the C call stack of the recursive-descent functions
    ret,             \* the value returned by the last call that returned one
    errlog,          \* every call of errorAt: its message, and whether it printed
    result           \* what compile() returned: -1 not yet, 0 NULL, else a function

vars == <<source, scanPos, parser, compilers, current, classCompilers,
          currentClass, functions, stack, ret, errlog, result>>

(***************************************************************************)
(* Program constants.                                                      *)
(***************************************************************************)
UINT8_MAX == 255
UINT8_COUNT == 256
UINT16_MAX == 65535
MAX_ARITY == 255
MAX_ARGS == 255

Prec == [PREC_NONE |-> 0, PREC_ASSIGNMENT |-> 1, PREC_OR |-> 2, PREC_AND |-> 3,
         PREC_EQUALITY |-> 4, PREC_COMPARISON |-> 5, PREC_TERM |-> 6,
         PREC_FACTOR |-> 7, PREC_UNARY |-> 8, PREC_CALL |-> 9, PREC_PRIMARY |-> 10]

(***************************************************************************)
(* Tokens.  A token is its type and its lexeme.                            *)
(***************************************************************************)
Token(type, lexeme) == [type |-> type, lexeme |-> lexeme]

Words ==
    [w \in {"(", ")", "{", "}", ",", ".", "-", "+", ";", "/", "*", "!", "!=", "=",
            "==", ">", ">=", "<", "<=", "and", "class", "else", "false", "for",
            "fun", "if", "nil", "or", "print", "return", "super", "this", "true",
            "var", "while"} |->
        CASE w = "(" -> "TOKEN_LEFT_PAREN"    [] w = ")" -> "TOKEN_RIGHT_PAREN"
          [] w = "{" -> "TOKEN_LEFT_BRACE"    [] w = "}" -> "TOKEN_RIGHT_BRACE"
          [] w = "," -> "TOKEN_COMMA"         [] w = "." -> "TOKEN_DOT"
          [] w = "-" -> "TOKEN_MINUS"         [] w = "+" -> "TOKEN_PLUS"
          [] w = ";" -> "TOKEN_SEMICOLON"     [] w = "/" -> "TOKEN_SLASH"
          [] w = "*" -> "TOKEN_STAR"          [] w = "!" -> "TOKEN_BANG"
          [] w = "!=" -> "TOKEN_BANG_EQUAL"   [] w = "=" -> "TOKEN_EQUAL"
          [] w = "==" -> "TOKEN_EQUAL_EQUAL"  [] w = ">" -> "TOKEN_GREATER"
          [] w = ">=" -> "TOKEN_GREATER_EQUAL" [] w = "<" -> "TOKEN_LESS"
          [] w = "<=" -> "TOKEN_LESS_EQUAL"   [] w = "and" -> "TOKEN_AND"
          [] w = "class" -> "TOKEN_CLASS"     [] w = "else" -> "TOKEN_ELSE"
          [] w = "false" -> "TOKEN_FALSE"     [] w = "for" -> "TOKEN_FOR"
          [] w = "fun" -> "TOKEN_FUN"         [] w = "if" -> "TOKEN_IF"
          [] w = "nil" -> "TOKEN_NIL"         [] w = "or" -> "TOKEN_OR"
          [] w = "print" -> "TOKEN_PRINT"     [] w = "return" -> "TOKEN_RETURN"
          [] w = "super" -> "TOKEN_SUPER"     [] w = "this" -> "TOKEN_THIS"
          [] w = "true" -> "TOKEN_TRUE"       [] w = "var" -> "TOKEN_VAR"
          [] w = "while" -> "TOKEN_WHILE"]

NumberWords == {"0", "1", "2"}
StringWords == {"\"s\""}
ErrorWords == {"@"}

\* The token the scanner makes of one word of source text.
Lex(w) ==
    IF w \in DOMAIN Words THEN Token(Words[w], w)
    ELSE IF w \in NumberWords THEN Token("TOKEN_NUMBER", w)
    ELSE IF w \in StringWords THEN Token("TOKEN_STRING", w)
    ELSE IF w \in ErrorWords THEN Token("TOKEN_ERROR", "Unexpected character.")
    ELSE Token("TOKEN_IDENTIFIER", w)

LexAll(ws) == [i \in 1..Len(ws) |-> Lex(ws[i])]

EofToken == Token("TOKEN_EOF", "")
\* The parser is a zero-initialised global before the first advance().
ZeroToken == Token("TOKEN_LEFT_PAREN", "")

(***************************************************************************)
(* The rule table.                                                         *)
(***************************************************************************)
Rule(p, i, prec) == [prefix |-> p, infix |-> i, precedence |-> prec]

getRule(t) ==
    CASE t = "TOKEN_LEFT_PAREN" -> Rule("grouping", "call", Prec.PREC_CALL)
      [] t = "TOKEN_DOT" -> Rule("", "dot", Prec.PREC_CALL)
      [] t = "TOKEN_MINUS" -> Rule("unary", "binary", Prec.PREC_TERM)
      [] t = "TOKEN_PLUS" -> Rule("", "binary", Prec.PREC_TERM)
      [] t = "TOKEN_SLASH" -> Rule("", "binary", Prec.PREC_FACTOR)
      [] t = "TOKEN_STAR" -> Rule("", "binary", Prec.PREC_FACTOR)
      [] t = "TOKEN_BANG" -> Rule("unary", "", Prec.PREC_NONE)
      [] t = "TOKEN_BANG_EQUAL" -> Rule("", "binary", Prec.PREC_EQUALITY)
      [] t = "TOKEN_EQUAL_EQUAL" -> Rule("", "binary", Prec.PREC_EQUALITY)
      [] t = "TOKEN_GREATER" -> Rule("", "binary", Prec.PREC_COMPARISON)
      [] t = "TOKEN_GREATER_EQUAL" -> Rule("", "binary", Prec.PREC_COMPARISON)
      [] t = "TOKEN_LESS" -> Rule("", "binary", Prec.PREC_COMPARISON)
      [] t = "TOKEN_LESS_EQUAL" -> Rule("", "binary", Prec.PREC_COMPARISON)
      [] t = "TOKEN_IDENTIFIER" -> Rule("variable", "", Prec.PREC_NONE)
      [] t = "TOKEN_STRING" -> Rule("string", "", Prec.PREC_NONE)
      [] t = "TOKEN_NUMBER" -> Rule("number", "", Prec.PREC_NONE)
      [] t = "TOKEN_AND" -> Rule("", "and_", Prec.PREC_AND)
      [] t = "TOKEN_FALSE" -> Rule("literal", "", Prec.PREC_NONE)
      [] t = "TOKEN_NIL" -> Rule("literal", "", Prec.PREC_NONE)
      [] t = "TOKEN_OR" -> Rule("", "or_", Prec.PREC_OR)
      [] t = "TOKEN_SUPER" -> Rule("super_", "", Prec.PREC_NONE)
      [] t = "TOKEN_THIS" -> Rule("this_", "", Prec.PREC_NONE)
      [] t = "TOKEN_TRUE" -> Rule("literal", "", Prec.PREC_NONE)
      [] OTHER -> Rule("", "", Prec.PREC_NONE)

(***************************************************************************)
(* The compiler state as one record, so that the C functions compose.      *)
(***************************************************************************)
St == [source |-> source, scanPos |-> scanPos, parser |-> parser,
       compilers |-> compilers, current |-> current,
       classCompilers |-> classCompilers, currentClass |-> currentClass,
       functions |-> functions, stack |-> stack, ret |-> ret,
       errlog |-> errlog, result |-> result]

Commit(s) ==
    /\ source' = s.source
    /\ scanPos' = s.scanPos
    /\ parser' = s.parser
    /\ compilers' = s.compilers
    /\ current' = s.current
    /\ classCompilers' = s.classCompilers
    /\ currentClass' = s.currentClass
    /\ functions' = s.functions
    /\ stack' = s.stack
    /\ ret' = s.ret
    /\ errlog' = s.errlog
    /\ result' = s.result

\* The control stack: the running activation is the last frame.
Frame(fn, pc, v) == [fn |-> fn, pc |-> pc, v |-> v]
NoLocals == [none |-> 0]
Top(s) == s.stack[Len(s.stack)]
Running(fn) == stack # <<>> /\ stack[Len(stack)].fn = fn
\* The running activation moves to `pc` with locals `v`.
Goto(s, pc, v) == [s EXCEPT !.stack[Len(s.stack)] = Frame(Top(s).fn, pc, v)]
\* The running activation calls fn(args); it resumes where Goto left it.
Call(s, fn, args) == [s EXCEPT !.stack = Append(@, Frame(fn, 0, args))]
\* The running activation returns.
Return(s) == [s EXCEPT !.stack = SubSeq(@, 1, Len(@) - 1)]

(***************************************************************************)
(* Errors.                                                                 *)
(***************************************************************************)
ErrorAtNoFlag(s, token, message) ==
    IF s.parser.panicMode
    THEN [s EXCEPT !.errlog = Append(@, [msg |-> message, printed |-> FALSE])]
    ELSE [s EXCEPT !.parser.panicMode = TRUE,
                   !.parser.hadError = (token.type # "TOKEN_EOF") \/ @,
                   !.errlog = Append(@, [msg |-> message, printed |-> TRUE])]

ErrorAtNoPanicCheck(s, token, message) ==
    [s EXCEPT !.parser.panicMode = TRUE,
              !.parser.hadError = TRUE,
              !.errlog = Append(@, [msg |-> message, printed |-> TRUE])]

errorAt(s, token, message) ==
    IF s.parser.panicMode
    THEN [s EXCEPT !.errlog = Append(@, [msg |-> message, printed |-> FALSE])]
    ELSE [s EXCEPT !.parser.panicMode = TRUE,
                   !.parser.hadError = TRUE,
                   !.errlog = Append(@, [msg |-> message, printed |-> TRUE])]

error(s, message) == errorAt(s, s.parser.previous, message)

errorAtCurrent(s, message) == errorAt(s, s.parser.current, message)

\* What the run has written to stderr.
Stderr(log) == SelectSeq(log, LAMBDA e : e.printed)

(***************************************************************************)
(* The scanner and the parser helpers.                                     *)
(***************************************************************************)
\* scanToken(): the next token of the source, TOKEN_EOF for ever at its end.
scanToken(s) ==
    IF s.scanPos < Len(s.source) THEN s.source[s.scanPos + 1] ELSE EofToken

RECURSIVE AdvanceLoop(_)
AdvanceLoop(s) ==
    LET tok == scanToken(s)
        s1 == [s EXCEPT !.parser.current = tok,
                        !.scanPos = IF @ < Len(s.source) THEN @ + 1 ELSE @]
    IN IF tok.type # "TOKEN_ERROR" THEN s1
       ELSE AdvanceLoop(errorAtCurrent(s1, tok.lexeme))

advance(s) == AdvanceLoop([s EXCEPT !.parser.previous = s.parser.current])

check(s, type) == s.parser.current.type = type

ConsumeWithoutAdvance(s, type, message) ==
    IF s.parser.current.type = type THEN s ELSE errorAtCurrent(s, message)

consume(s, type, message) ==
    IF s.parser.current.type = type THEN advance(s) ELSE errorAtCurrent(s, message)

\* match(): the state after it; whether it matched is check() before it.
match(s, type) == IF check(s, type) THEN advance(s) ELSE s

(***************************************************************************)
(* Emitting bytecode.  A byte of a chunk is an opcode or an operand.       *)
(***************************************************************************)
OpB(op) == [op |-> op, arg |-> 0]
ArgB(n) == [op |-> "", arg |-> n % 256]

Cur(s) == s.compilers[s.current]
CurFn(s) == s.functions[Cur(s).function]
\* currentChunk()->count
Count(s) == Len(CurFn(s).code)

emitByte(s, byte) ==
    [s EXCEPT !.functions[Cur(s).function].code = Append(@, byte)]

emitBytes(s, byte1, byte2) == emitByte(emitByte(s, byte1), byte2)

EmitReturnAlwaysNil(s) == emitByte(emitByte(s, OpB("OP_NIL")), OpB("OP_RETURN"))

emitReturn(s) ==
    LET s1 == IF Cur(s).type = "TYPE_INITIALIZER"
              THEN emitBytes(s, OpB("OP_GET_LOCAL"), ArgB(0))
              ELSE emitByte(s, OpB("OP_NIL"))
    IN emitByte(s1, OpB("OP_RETURN"))

\* A constant of a chunk: a number, a string, or a function object.
NumberVal(w) == [kind |-> "number", text |-> w, obj |-> 0]
StringVal(w) == [kind |-> "string", text |-> w, obj |-> 0]
FunctionVal(f) == [kind |-> "function", text |-> "", obj |-> f]

\* addConstant(): appends the value and returns its index.
addConstant(s, value) ==
    [s EXCEPT !.functions[Cur(s).function].constants = Append(@, value)]

\* makeConstant(): the state after it and the index it returns.
makeConstant(s, value) ==
    LET constant == Len(CurFn(s).constants)
        s1 == addConstant(s, value)
    IN IF constant > UINT8_MAX
       THEN [s |-> error(s1, "Too many constants in one chunk."), index |-> 0]
       ELSE [s |-> s1, index |-> constant]

emitConstant(s, value) ==
    LET c == makeConstant(s, value)
    IN emitBytes(c.s, OpB("OP_CONSTANT"), ArgB(c.index))

identifierConstant(s, name) == makeConstant(s, StringVal(name.lexeme))

syntheticToken(text) == Token("", text)

(***************************************************************************)
(* Compiler frames, scopes, locals and upvalues.                           *)
(***************************************************************************)
Local(name, depth, isCaptured) ==
    [name |-> name, depth |-> depth, isCaptured |-> isCaptured]

\* newFunction(): a fresh ObjFunction, arity 0, no upvalues, no name, empty chunk.
newFunction == [arity |-> 0, upvalueCount |-> 0, name |-> "",
                code |-> <<>>, constants |-> <<>>]

\* localCount of frame c; slot i of the C array is locals[i + 1] here.
LocalCount(s, c) == Len(s.compilers[c].locals)

initCompiler(s, type) ==
    LET f == Len(s.functions) + 1
        fn == IF type # "TYPE_SCRIPT"
              THEN [newFunction EXCEPT !.name = s.parser.previous.lexeme]
              ELSE newFunction
        slot0 == Local(IF type # "TYPE_FUNCTION" THEN "this" ELSE "", 0, FALSE)
        c == [enclosing |-> s.current, function |-> f, type |-> type,
              locals |-> <<slot0>>, upvalues |-> <<>>, scopeDepth |-> 0]
    IN [s EXCEPT !.functions = Append(@, fn),
                 !.compilers = Append(@, c),
                 !.current = Len(s.compilers) + 1]

\* endCompiler(): the state after it; the function it returns is that of the
\* frame that was current.
EndCompilerKeepsCurrent(s) == emitReturn(s)

endCompiler(s) == [emitReturn(s) EXCEPT !.current = Cur(s).enclosing]

BeginScopeNothing(s) == s

beginScope(s) == [s EXCEPT !.compilers[s.current].scopeDepth = @ + 1]

EndScopeAlwaysPop(s, ignored) == emitByte(s, OpB("OP_POP"))

\* The instruction endScope() emits for the local it removes.
EndScopeEmit(s, local) ==
    IF local.isCaptured THEN emitByte(s, OpB("OP_CLOSE_UPVALUE"))
    ELSE emitByte(s, OpB("OP_POP"))

RECURSIVE EndScopeLoop(_)
EndScopeLoop(s) ==
    LET n == LocalCount(s, s.current)
    IN IF n = 0
       \* locals[-1] is read: outside the array.
       THEN [s EXCEPT !.errlog = Append(@, [msg |-> "UB: locals[-1]", printed |-> FALSE])]
       ELSE IF Cur(s).locals[n].depth > Cur(s).scopeDepth
       THEN EndScopeLoop([EndScopeEmit(s, Cur(s).locals[n])
                             EXCEPT !.compilers[s.current].locals = SubSeq(@, 1, n - 1)])
       ELSE s

endScope(s) == EndScopeLoop([s EXCEPT !.compilers[s.current].scopeDepth = @ - 1])

identifiersEqual(a, b) == a = b

addLocal(s, name) ==
    IF LocalCount(s, s.current) = UINT8_COUNT
    THEN error(s, "Too many local variables in function.")
    ELSE [s EXCEPT !.compilers[s.current].locals = Append(@, Local(name, -1, FALSE))]

\* Whether the walk of declareVariable() stops at this local.
DeclareStopsNever(local, scopeDepth) == FALSE

DeclareStops(local, scopeDepth) == local.depth # -1 /\ local.depth < scopeDepth

\* The largest member of a non-empty set of slots.
MaxOf(slots) == CHOOSE j \in slots : \A k \in slots : k <= j

\* error() called n times in a row: all but the first find panic mode set.
RECURSIVE ErrorTimes(_, _, _)
ErrorTimes(s, message, n) ==
    IF n = 0 THEN s ELSE ErrorTimes(error(s, message), message, n - 1)

\* The loop of declareVariable() from slot i down: it leaves at the first local
\* of an enclosing scope, and reports every local above it that has the name.
DeclareLoop(s, name, i) ==
    LET locals == Cur(s).locals
        stops == {j \in 0..i : DeclareStops(locals[j + 1], Cur(s).scopeDepth)}
        last == IF stops = {} THEN -1 ELSE MaxOf(stops)
        same == {j \in (last + 1)..i : identifiersEqual(name, locals[j + 1].name)}
    IN ErrorTimes(s, "Already variable with this name in this scope.",
                  Cardinality(same))

declareVariable(s) ==
    IF Cur(s).scopeDepth = 0 THEN s
    ELSE LET name == s.parser.previous.lexeme
         IN addLocal(DeclareLoop(s, name, LocalCount(s, s.current) - 1), name)

\* The slot resolveLocal() finds in frame c, -1 if none.
FindLocal(locals, name, i) ==
    LET same == {j \in 0..i : identifiersEqual(name, locals[j + 1].name)}
    IN IF same = {} THEN -1 ELSE MaxOf(same)

ResolveLocalNoCheck(s, c, name) ==
    [s |-> s, index |-> FindLocal(s.compilers[c].locals, name, LocalCount(s, c) - 1)]

\* resolveLocal(): the state after it and the slot it returns.
resolveLocal(s, c, name) ==
    LET i == FindLocal(s.compilers[c].locals, name, LocalCount(s, c) - 1)
    IN IF i # -1 /\ s.compilers[c].locals[i + 1].depth = -1
       THEN [s |-> error(s, "Can't read local variable in it's own initializer."),
             index |-> i]
       ELSE [s |-> s, index |-> i]

Upvalue(index, isLocal) == [index |-> index, isLocal |-> isLocal]

\* The upvalue of frame c that addUpvalue() reuses, -1 if none.
FindUpvalue(upvalues, index, isLocal, i) ==
    LET same == {j \in i..Len(upvalues) :
                    upvalues[j].index = index /\ upvalues[j].isLocal = isLocal}
    IN IF same = {} THEN -1 ELSE (CHOOSE j \in same : \A k \in same : j <= k) - 1

AddUpvalueNoReuse(s, c, index8, isLocal) ==
    LET f == s.compilers[c].function
        upvalueCount == s.functions[f].upvalueCount
    IN IF upvalueCount = UINT8_COUNT
       THEN [s |-> error(s, "Too many closure variables in function."), index |-> 0]
       ELSE [s |-> [s EXCEPT !.compilers[c].upvalues =
                                 Append(@, Upvalue(index8 % 256, isLocal)),
                             !.functions[f].upvalueCount = @ + 1],
             index |-> upvalueCount]

\* addUpvalue(): the state after it and the index it returns; index is a uint8_t.
addUpvalue(s, c, index8, isLocal) ==
    LET index == index8 % 256
        f == s.compilers[c].function
        upvalueCount == s.functions[f].upvalueCount
        found == FindUpvalue(SubSeq(s.compilers[c].upvalues, 1, upvalueCount),
                             index, isLocal, 1)
    IN IF found # -1 THEN [s |-> s, index |-> found]
       ELSE IF upvalueCount = UINT8_COUNT
       THEN [s |-> error(s, "Too many closure variables in function."), index |-> 0]
       ELSE [s |-> [s EXCEPT !.compilers[c].upvalues = Append(@, Upvalue(index, isLocal)),
                             !.functions[f].upvalueCount = @ + 1],
             index |-> upvalueCount]

ResolveUpvalueOneLevel(s, c, name) ==
    LET e == s.compilers[c].enclosing
    IN IF e = 0 THEN [s |-> s, index |-> -1]
       ELSE LET l == resolveLocal(s, e, name)
            IN IF l.index # -1
               THEN addUpvalue([l.s EXCEPT !.compilers[e].locals[l.index + 1].isCaptured = TRUE],
                               c, l.index, TRUE)
               ELSE [s |-> l.s, index |-> -1]

\* resolveUpvalue(): the state after it and the index it returns.
RECURSIVE resolveUpvalue(_, _, _)
resolveUpvalue(s, c, name) ==
    LET e == s.compilers[c].enclosing
    IN IF e = 0 THEN [s |-> s, index |-> -1]
       ELSE LET l == resolveLocal(s, e, name)
            IN IF l.index # -1
               THEN addUpvalue([l.s EXCEPT !.compilers[e].locals[l.index + 1].isCaptured = TRUE],
                               c, l.index, TRUE)
               ELSE LET u == resolveUpvalue(l.s, e, name)
                    IN IF u.index # -1 THEN addUpvalue(u.s, c, u.index, FALSE)
                       ELSE [s |-> u.s, index |-> -1]

markInitialized(s) ==
    IF Cur(s).scopeDepth = 0 THEN s
    ELSE [s EXCEPT !.compilers[s.current].locals[LocalCount(s, s.current)].depth =
                       Cur(s).scopeDepth]

defineVariable(s, global) ==
    IF Cur(s).scopeDepth > 0 THEN markInitialized(s)
    ELSE emitBytes(s, OpB("OP_DEFINE_GLOBAL"), ArgB(global))

\* parseVariable(): the state after it and the index it returns.
parseVariable(s, errorMessage) ==
    LET s1 == declareVariable(consume(s, "TOKEN_IDENTIFIER", errorMessage))
    IN IF Cur(s1).scopeDepth > 0 THEN [s |-> s1, index |-> 0]
       ELSE identifierConstant(s1, s1.parser.previous)

\* The first half of namedVariable(): how the name is reached.
NamedVariableResolve(s, name) ==
    LET l == resolveLocal(s, s.current, name)
    IN IF l.index # -1
       THEN [s |-> l.s, arg |-> l.index, getOp |-> "OP_GET_LOCAL", setOp |-> "OP_SET_LOCAL"]
       ELSE LET u == resolveUpvalue(l.s, s.current, name)
            IN IF u.index # -1
               THEN [s |-> u.s, arg |-> u.index,
                     getOp |-> "OP_GET_UPVALUE", setOp |-> "OP_SET_UPVALUE"]
               ELSE LET g == makeConstant(u.s, StringVal(name))
                    IN [s |-> g.s, arg |-> g.index,
                        getOp |-> "OP_GET_GLOBAL", setOp |-> "OP_SET_GLOBAL"]

NamedVariableIgnoresCanAssign(canAssign, isEqual) == isEqual

\* The test `canAssign && match(TOKEN_EQUAL)` of namedVariable(); isEqual is
\* whether the current token is `=`.
NamedVariableAssigns(canAssign, isEqual) == canAssign /\ isEqual

\* namedVariable(name, canAssign): to its call of expression() or to its end,
\* then from the return of expression() to its end.
namedVariable(s) ==
    LET f == Top(s) IN
    IF f.pc = 0 THEN
        LET r == NamedVariableResolve(s, f.v.name)
        IN IF NamedVariableAssigns(f.v.canAssign, check(r.s, "TOKEN_EQUAL"))
           THEN Call(Goto(match(r.s, "TOKEN_EQUAL"), 1,
                          [setOp |-> r.setOp, arg |-> r.arg]),
                     "parsePrecedence", [precedence |-> Prec.PREC_ASSIGNMENT])
           ELSE Return(emitBytes(r.s, OpB(r.getOp), ArgB(r.arg)))
    ELSE Return(emitBytes(s, OpB(f.v.setOp), ArgB(f.v.arg)))

\* variable(): the call of namedVariable(parser.previous, canAssign).
variable(s, canAssign) ==
    Call(s, "namedVariable", [name |-> s.parser.previous.lexeme, canAssign |-> canAssign])

ThisAnywhere(s) == variable(s, FALSE)

this_(s) ==
    IF s.currentClass = 0 THEN error(s, "Can't use 'this' outside of a class.")
    ELSE variable(s, FALSE)

number(s) == emitConstant(s, NumberVal(s.parser.previous.lexeme))

string(s) == emitConstant(s, StringVal(s.parser.previous.lexeme))

literal(s) ==
    LET t == s.parser.previous.type
    IN CASE t = "TOKEN_FALSE" -> emitByte(s, OpB("OP_FALSE"))
         [] t = "TOKEN_NIL" -> emitByte(s, OpB("OP_NIL"))
         [] t = "TOKEN_TRUE" -> emitByte(s, OpB("OP_TRUE"))
         [] OTHER -> s

(***************************************************************************)
(* Jumps.                                                                  *)
(***************************************************************************)
\* emitJump(): the state after it; it returns Count - 2 of that state.
emitJump(s, instruction) ==
    emitBytes(emitByte(s, OpB(instruction)), ArgB(255), ArgB(255))

\* Writes code[offset] (a C index) of the current chunk.
Poke(s, offset, byte) ==
    [s EXCEPT !.functions[Cur(s).function].code[offset + 1] = byte]

PatchJumpNothing(s, offset) == s

PatchJumpFromOperand(s, offset) ==
    LET jump == Count(s) - offset
        s1 == IF jump > UINT16_MAX THEN error(s, "Too much code to jump over.") ELSE s
    IN Poke(Poke(s1, offset, ArgB(jump \div 256)), offset + 1, ArgB(jump))

patchJump(s, offset) ==
    LET jump == Count(s) - offset - 2
        s1 == IF jump > UINT16_MAX THEN error(s, "Too much code to jump over.") ELSE s
    IN Poke(Poke(s1, offset, ArgB(jump \div 256)), offset + 1, ArgB(jump))

emitLoop(s, loopStart) ==
    LET s1 == emitByte(s, OpB("OP_LOOP"))
        offset == Count(s1) - loopStart + 2
        s2 == IF offset > UINT16_MAX THEN error(s1, "Loop body too large.") ELSE s1
    IN emitBytes(s2, ArgB(offset \div 256), ArgB(offset))

(***************************************************************************)
(* The recursive-descent functions.  Each takes the state in which its     *)
(* activation is the running one and gives the state at its next call, or  *)
(* at its return.                                                          *)
(***************************************************************************)
TailCall(s, fn, args) == [s EXCEPT !.stack[Len(s.stack)] = Frame(fn, 0, args)]

expression(s) == Call(s, "parsePrecedence", [precedence |-> Prec.PREC_ASSIGNMENT])

\* The infix loop of parsePrecedence() stops at this token.
InfixStops(precedence, type) == ~(precedence <= getRule(type).precedence)

CanAssignAlways(precedence) == TRUE

CanAssign(precedence) == precedence <= Prec.PREC_ASSIGNMENT

parsePrecedence(s) ==
    LET f == Top(s) IN
    IF f.pc = 0 THEN
        LET s1 == advance(s)
            prefixRule == getRule(s1.parser.previous.type).prefix
            canAssign == CanAssign(f.v.precedence)
            s2 == Goto(s1, 1, [precedence |-> f.v.precedence, canAssign |-> canAssign])
        IN CASE prefixRule = "" -> Return(error(s1, "Expect expression."))
             [] prefixRule = "variable" -> variable(s2, canAssign)
             [] prefixRule = "this_" -> this_(s2)
             [] prefixRule = "number" -> number(s2)
             [] prefixRule = "string" -> string(s2)
             [] prefixRule = "literal" -> literal(s2)
             [] OTHER -> Call(s2, prefixRule, [canAssign |-> canAssign])
    ELSE IF ~InfixStops(f.v.precedence, s.parser.current.type)
    THEN LET s1 == advance(s)
         IN Call(s1, getRule(s1.parser.previous.type).infix, [canAssign |-> f.v.canAssign])
    ELSE IF f.v.canAssign /\ check(s, "TOKEN_EQUAL")
    THEN Return(error(match(s, "TOKEN_EQUAL"), "Invalid assignment target."))
    ELSE Return(s)

binary(s) ==
    LET f == Top(s) IN
    IF f.pc = 0 THEN
        LET operatorType == s.parser.previous.type
        IN Call(Goto(s, 1, [operatorType |-> operatorType]), "parsePrecedence",
                [precedence |-> getRule(operatorType).precedence + 1])
    ELSE LET t == f.v.operatorType
         IN Return(
              CASE t = "TOKEN_BANG_EQUAL" -> emitBytes(s, OpB("OP_EQUAL"), OpB("OP_NOT"))
                [] t = "TOKEN_EQUAL_EQUAL" -> emitByte(s, OpB("OP_EQUAL"))
                [] t = "TOKEN_GREATER" -> emitByte(s, OpB("OP_GREATER"))
                [] t = "TOKEN_GREATER_EQUAL" -> emitBytes(s, OpB("OP_LESS"), OpB("OP_NOT"))
                [] t = "TOKEN_LESS" -> emitByte(s, OpB("OP_LESS"))
                [] t = "TOKEN_LESS_EQUAL" -> emitBytes(s, OpB("OP_GREATER"), OpB("OP_NOT"))
                [] t = "TOKEN_PLUS" -> emitByte(s, OpB("OP_ADD"))
                [] t = "TOKEN_MINUS" -> emitByte(s, OpB("OP_SUBTRACT"))
                [] t = "TOKEN_STAR" -> emitByte(s, OpB("OP_MULTIPLY"))
                [] t = "TOKEN_SLASH" -> emitByte(s, OpB("OP_DIVIDE"))
                [] OTHER -> s)

unary(s) ==
    LET f == Top(s) IN
    IF f.pc = 0 THEN
        Call(Goto(s, 1, [operatorType |-> s.parser.previous.type]), "parsePrecedence",
             [precedence |-> Prec.PREC_UNARY])
    ELSE LET t == f.v.operatorType
         IN Return(
              CASE t = "TOKEN_BANG" -> emitByte(s, OpB("OP_NOT"))
                [] t = "TOKEN_MINUS" -> emitByte(s, OpB("OP_NEGATE"))
                [] OTHER -> s)

ArgCountFull(argCount) == argCount = MAX_ARGS

\* argumentList() from its consume of `)`: it returns argCount.
ArgumentListEnd(s, argCount) ==
    Return([consume(s, "TOKEN_RIGHT_PAREN", "Expect ')' after arguments.")
               EXCEPT !.ret = argCount])

argumentList(s) ==
    LET f == Top(s) IN
    IF f.pc = 0 THEN
        IF ~check(s, "TOKEN_RIGHT_PAREN")
        THEN expression(Goto(s, 1, [argCount |-> 0]))
        ELSE ArgumentListEnd(s, 0)
    ELSE LET s1 == IF ArgCountFull(f.v.argCount)
                   THEN error(s, "Can't have more than 255 arguments.")
                   ELSE s
             argCount == (f.v.argCount + 1) % 256
         IN IF check(s1, "TOKEN_COMMA")
            THEN expression(Goto(match(s1, "TOKEN_COMMA"), 1, [argCount |-> argCount]))
            ELSE ArgumentListEnd(s1, argCount)

call(s) ==
    IF Top(s).pc = 0 THEN Call(Goto(s, 1, NoLocals), "argumentList", NoLocals)
    ELSE Return(emitBytes(s, OpB("OP_CALL"), ArgB(s.ret)))

dot(s) ==
    LET f == Top(s) IN
    IF f.pc = 0 THEN
        LET s1 == consume(s, "TOKEN_IDENTIFIER", "Expect property name after '.'.")
            c == identifierConstant(s1, s1.parser.previous)
            v == [name |-> c.index]
        IN IF f.v.canAssign /\ check(c.s, "TOKEN_EQUAL")
           THEN expression(Goto(match(c.s, "TOKEN_EQUAL"), 1, v))
           ELSE IF check(c.s, "TOKEN_LEFT_PAREN")
           THEN Call(Goto(match(c.s, "TOKEN_LEFT_PAREN"), 2, v), "argumentList", NoLocals)
           ELSE Return(emitBytes(c.s, OpB("OP_GET_PROPERTY"), ArgB(c.index)))
    ELSE IF f.pc = 1
    THEN Return(emitBytes(s, OpB("OP_SET_PROPERTY"), ArgB(f.v.name)))
    ELSE Return(emitByte(emitBytes(s, OpB("OP_INVOKE"), ArgB(f.v.name)), ArgB(s.ret)))

grouping(s) ==
    IF Top(s).pc = 0 THEN expression(Goto(s, 1, NoLocals))
    ELSE Return(consume(s, "TOKEN_RIGHT_PAREN", "Expect ')' after expression."))

and_(s) ==
    LET f == Top(s) IN
    IF f.pc = 0 THEN
        LET s1 == emitJump(s, "OP_JUMP_IF_FALSE")
            endJump == Count(s1) - 2
        IN Call(Goto(emitByte(s1, OpB("OP_POP")), 1, [endJump |-> endJump]),
                "parsePrecedence", [precedence |-> Prec.PREC_AND])
    ELSE Return(patchJump(s, f.v.endJump))

or_(s) ==
    LET f == Top(s) IN
    IF f.pc = 0 THEN
        LET s1 == emitJump(s, "OP_JUMP_IF_FALSE")
            avoidJump == Count(s1) - 2
            s2 == emitJump(s1, "OP_JUMP")
            endJump == Count(s2) - 2
            s3 == emitByte(patchJump(s2, avoidJump), OpB("OP_POP"))
        IN Call(Goto(s3, 1, [endJump |-> endJump]),
                "parsePrecedence", [precedence |-> Prec.PREC_OR])
    ELSE Return(patchJump(s, f.v.endJump))

\* The call namedVariable(syntheticToken(text), false).
NamedVariableCall(s, text) ==
    Call(s, "namedVariable", [name |-> syntheticToken(text).lexeme, canAssign |-> FALSE])

super_(s) ==
    LET f == Top(s) IN
    CASE f.pc = 0 ->
        LET s0 == IF s.currentClass = 0
                  THEN error(s, "Can't use 'super' outside of a class.")
                  ELSE IF ~s.classCompilers[s.currentClass].hasSuperclass
                  THEN error(s, "Can't use 'super' in a class with no superclass.")
                  ELSE s
            s1 == consume(s0, "TOKEN_DOT", "Expect '.' after 'super'.")
            s2 == consume(s1, "TOKEN_IDENTIFIER", "Expect superclass method name.")
            c == identifierConstant(s2, s2.parser.previous)
        IN NamedVariableCall(Goto(c.s, 1, [name |-> c.index, argCount |-> 0]), "this")
      [] f.pc = 1 ->
        IF check(s, "TOKEN_LEFT_PAREN")
        THEN Call(Goto(match(s, "TOKEN_LEFT_PAREN"), 2, f.v), "argumentList", NoLocals)
        ELSE NamedVariableCall(Goto(s, 4, f.v), "super")
      \* argumentList() has returned argCount
      [] f.pc = 2 ->
        NamedVariableCall(Goto(s, 3, [f.v EXCEPT !.argCount = s.ret]), "super")
      [] f.pc = 3 ->
        NamedVariableCall(
            Goto(emitByte(emitBytes(s, OpB("OP_SUPER_INVOKE"), ArgB(f.v.name)),
                          ArgB(f.v.argCount)), 5, f.v),
            "super")
      [] f.pc = 4 ->
        NamedVariableCall(
            Goto(emitBytes(s, OpB("OP_GET_SUPER"), ArgB(f.v.name)), 5, f.v), "super")
      \* the statements after the if
      [] OTHER -> Return(emitBytes(s, OpB("OP_GET_SUPER"), ArgB(f.v.name)))

(***************************************************************************)
(* Statements and declarations.                                            *)
(***************************************************************************)
VarDeclarationEnd(s, slot) ==
    Return(defineVariable(
             consume(s, "TOKEN_SEMICOLON", "Expect ';' after variable declaration."),
             slot))

varDeclaration(s) ==
    LET f == Top(s) IN
    IF f.pc = 0 THEN
        LET pv == parseVariable(s, "Expect variable name.")
        IN IF check(pv.s, "TOKEN_EQUAL")
           THEN expression(Goto(match(pv.s, "TOKEN_EQUAL"), 1, [slot |-> pv.index]))
           ELSE VarDeclarationEnd(emitByte(pv.s, OpB("OP_NIL")), pv.index)
    ELSE VarDeclarationEnd(s, f.v.slot)

FunDeclarationNoMark(s) == s

\* funDeclaration() marks the name initialized before the body is compiled.
FunDeclarationMark(s) == markInitialized(s)

funDeclaration(s) ==
    LET f == Top(s) IN
    IF f.pc = 0 THEN
        LET pv == parseVariable(s, "Expect function name.")
        IN Call(Goto(FunDeclarationMark(pv.s), 1, [global |-> pv.index]),
                "function", [type |-> "TYPE_FUNCTION"])
    ELSE Return(defineVariable(s, f.v.global))

expressionStatement(s) ==
    IF Top(s).pc = 0 THEN expression(Goto(s, 1, NoLocals))
    ELSE Return(emitByte(consume(s, "TOKEN_SEMICOLON", "Expect ';' after expression."),
                         OpB("OP_POP")))

printStatement(s) ==
    IF Top(s).pc = 0 THEN expression(Goto(s, 1, NoLocals))
    ELSE Return(emitByte(consume(s, "TOKEN_SEMICOLON", "Expect ';' after value."),
                         OpB("OP_PRINT")))

ReturnTopLevelNoError(s) == s

\* The first statement of returnStatement().
ReturnTopLevel(s) ==
    IF Cur(s).type = "TYPE_SCRIPT" THEN error(s, "Can't return from top-level code.")
    ELSE s

returnStatement(s) ==
    IF Top(s).pc = 0 THEN
        LET s1 == ReturnTopLevel(s)
        IN IF check(s1, "TOKEN_SEMICOLON")
           THEN Return(emitReturn(match(s1, "TOKEN_SEMICOLON")))
           ELSE LET s2 == IF Cur(s1).type = "TYPE_INITIALIZER"
                          THEN error(s1, "Can't return a value from an initializer.")
                          ELSE s1
                IN expression(Goto(s2, 1, NoLocals))
    ELSE Return(emitByte(consume(s, "TOKEN_SEMICOLON", "Expect ';' after return value."),
                         OpB("OP_RETURN")))

ifStatement(s) ==
    LET f == Top(s) IN
    IF f.pc = 0 THEN
        expression(Goto(consume(s, "TOKEN_LEFT_PAREN", "Expect '(' after 'if'."), 1, NoLocals))
    ELSE IF f.pc = 1 THEN
        LET s1 == consume(s, "TOKEN_RIGHT_PAREN", "Expect ')' after condition.")
            s2 == emitJump(s1, "OP_JUMP_IF_FALSE")
            thenJump == Count(s2) - 2
        IN Call(Goto(emitByte(s2, OpB("OP_POP")), 2, [thenJump |-> thenJump]),
                "statement", NoLocals)
    ELSE IF f.pc = 2 THEN
        LET s1 == emitJump(s, "OP_JUMP")
            elseJump == Count(s1) - 2
            s2 == emitByte(patchJump(s1, f.v.thenJump), OpB("OP_POP"))
        IN IF check(s2, "TOKEN_ELSE")
           THEN Call(Goto(match(s2, "TOKEN_ELSE"), 3, [elseJump |-> elseJump]),
                     "statement", NoLocals)
           ELSE Return(patchJump(s2, elseJump))
    ELSE Return(patchJump(s, f.v.elseJump))

whileStatment(s) ==
    LET f == Top(s) IN
    IF f.pc = 0 THEN
        LET loopStart == Count(s)
        IN expression(Goto(consume(s, "TOKEN_LEFT_PAREN", "Expect '(' after 'while'."),
                           1, [loopStart |-> loopStart]))
    ELSE IF f.pc = 1 THEN
        LET s1 == consume(s, "TOKEN_RIGHT_PAREN", "Expect ')' after condition.")
            s2 == emitJump(s1, "OP_JUMP_IF_FALSE")
            exitJump == Count(s2) - 2
        IN Call(Goto(emitByte(s2, OpB("OP_POP")), 2,
                     [loopStart |-> f.v.loopStart, exitJump |-> exitJump]),
                "statement", NoLocals)
    ELSE Return(emitByte(patchJump(emitLoop(s, f.v.loopStart), f.v.exitJump),
                         OpB("OP_POP")))

\* forStatement() from its call of statement() for the body.
ForBody(s, loopStart, exitJump) ==
    Call(Goto(s, 5, [loopStart |-> loopStart, exitJump |-> exitJump]),
         "statement", NoLocals)

\* forStatement() from the increment clause.
ForIncrement(s, loopStart, exitJump) ==
    IF ~check(s, "TOKEN_RIGHT_PAREN")
    THEN LET s1 == emitJump(s, "OP_JUMP")
             bodyJump == Count(s1) - 2
             incrementStart == Count(s1)
         IN expression(Goto(s1, 4, [loopStart |-> loopStart, exitJump |-> exitJump,
                                    bodyJump |-> bodyJump,
                                    incrementStart |-> incrementStart]))
    ELSE ForBody(match(s, "TOKEN_RIGHT_PAREN"), loopStart, exitJump)

\* forStatement() from the condition clause.
ForCondition(s) ==
    LET loopStart == Count(s)
    IN IF ~check(s, "TOKEN_SEMICOLON")
       THEN expression(Goto(s, 3, [loopStart |-> loopStart]))
       ELSE ForIncrement(match(s, "TOKEN_SEMICOLON"), loopStart, -1)

forStatement(s) ==
    LET f == Top(s) IN
    IF f.pc = 0 THEN
        LET s1 == consume(beginScope(s), "TOKEN_LEFT_PAREN", "Expect '(' after 'for'.")
        IN IF check(s1, "TOKEN_SEMICOLON") THEN ForCondition(match(s1, "TOKEN_SEMICOLON"))
           ELSE IF check(s1, "TOKEN_VAR")
           THEN Call(Goto(match(s1, "TOKEN_VAR"), 2, NoLocals), "varDeclaration", NoLocals)
           ELSE Call(Goto(s1, 2, NoLocals), "expressionStatement", NoLocals)
    ELSE IF f.pc = 2 THEN ForCondition(s)
    ELSE IF f.pc = 3 THEN
        LET s1 == consume(s, "TOKEN_SEMICOLON", "Expect ';' after loop condition.")
            s2 == emitJump(s1, "OP_JUMP_IF_FALSE")
            exitJump == Count(s2) - 2
        IN ForIncrement(emitByte(s2, OpB("OP_POP")), f.v.loopStart, exitJump)
    ELSE IF f.pc = 4 THEN
        LET s1 == emitByte(s, OpB("OP_POP"))
            s2 == consume(s1, "TOKEN_RIGHT_PAREN", "Expect ')' after for loop initializer.")
            s3 == emitLoop(s2, f.v.loopStart)
        IN ForBody(patchJump(s3, f.v.bodyJump), f.v.incrementStart, f.v.exitJump)
    ELSE LET s1 == emitLoop(s, f.v.loopStart)
             s2 == IF f.v.exitJump # -1
                   THEN emitByte(patchJump(s1, f.v.exitJump), OpB("OP_POP"))
                   ELSE s1
         IN Return(endScope(s2))

statement(s) ==
    IF Top(s).pc = 0 THEN
        IF check(s, "TOKEN_PRINT")
        THEN TailCall(match(s, "TOKEN_PRINT"), "printStatement", NoLocals)
        ELSE IF check(s, "TOKEN_IF")
        THEN TailCall(match(s, "TOKEN_IF"), "ifStatement", NoLocals)
        ELSE IF check(s, "TOKEN_RETURN")
        THEN TailCall(match(s, "TOKEN_RETURN"), "returnStatement", NoLocals)
        ELSE IF check(s, "TOKEN_WHILE")
        THEN TailCall(match(s, "TOKEN_WHILE"), "whileStatment", NoLocals)
        ELSE IF check(s, "TOKEN_FOR")
        THEN TailCall(match(s, "TOKEN_FOR"), "forStatement", NoLocals)
        ELSE IF check(s, "TOKEN_LEFT_BRACE")
        THEN Call(Goto(beginScope(match(s, "TOKEN_LEFT_BRACE")), 1, NoLocals),
                  "block", NoLocals)
        ELSE TailCall(s, "expressionStatement", NoLocals)
    ELSE Return(endScope(s))

SyncStops(s) ==
    \/ s.parser.previous.type = "TOKEN_SEMICOLON"
    \/ s.parser.current.type \in
         {"TOKEN_CLASS", "TOKEN_FUN", "TOKEN_VAR", "TOKEN_FOR", "TOKEN_IF",
          "TOKEN_WHILE", "TOKEN_PRINT", "TOKEN_RETURN"}

RECURSIVE SynchronizeLoop(_)
SynchronizeLoop(s) ==
    IF s.parser.current.type = "TOKEN_EOF" \/ SyncStops(s) THEN s
    ELSE SynchronizeLoop(advance(s))

SynchronizeKeepsPanic(s) == Return(SynchronizeLoop(s))

synchronize(s) == Return(SynchronizeLoop([s EXCEPT !.parser.panicMode = FALSE]))

declaration(s) ==
    LET f == Top(s) IN
    IF f.pc = 0 THEN
        IF check(s, "TOKEN_CLASS")
        THEN Call(Goto(match(s, "TOKEN_CLASS"), 1, NoLocals), "classDeclaration", NoLocals)
        ELSE IF check(s, "TOKEN_FUN")
        THEN Call(Goto(match(s, "TOKEN_FUN"), 1, NoLocals), "funDeclaration", NoLocals)
        ELSE IF check(s, "TOKEN_VAR")
        THEN Call(Goto(match(s, "TOKEN_VAR"), 1, NoLocals), "varDeclaration", NoLocals)
        ELSE Call(Goto(s, 1, NoLocals), "statement", NoLocals)
    ELSE IF f.pc = 1 THEN
        IF s.parser.panicMode THEN Call(Goto(s, 2, NoLocals), "synchronize", NoLocals)
        ELSE Return(s)
    ELSE Return(s)

block(s) ==
    IF ~check(s, "TOKEN_RIGHT_BRACE") /\ ~check(s, "TOKEN_EOF")
    THEN Call(s, "declaration", NoLocals)
    ELSE Return(consume(s, "TOKEN_RIGHT_BRACE", "Expect '}' after block."))

ArityTooLargeAtLimit(arity) == arity >= MAX_ARITY

ArityTooLarge(arity) == arity > MAX_ARITY

\* One turn of the parameter loop of function(), up to its match(TOKEN_COMMA).
Parameter1(s) ==
    LET fid == Cur(s).function
        s1 == [s EXCEPT !.functions[fid].arity = @ + 1]
        s2 == IF ArityTooLarge(s1.functions[fid].arity)
              THEN errorAtCurrent(s1, "Can't have more than 255 parameters.")
              ELSE s1
        pv == parseVariable(s2, "Expect parameter name.")
    IN defineVariable(pv.s, pv.index)

\* function() from the end of the parameter list to its call of block().
FunctionBody(s, v) ==
    LET s1 == consume(s, "TOKEN_RIGHT_PAREN", "Expect ')' after parameters.")
        s2 == consume(s1, "TOKEN_LEFT_BRACE", "Expect '{' before function body.")
    IN Call(Goto(s2, 1, v), "block", NoLocals)

\* The upvalue bytes function() emits after OP_CLOSURE.
EmitUpvalues(s, upvalues, i, n) ==
    [s EXCEPT !.functions[Cur(s).function].code =
        @ \o [j \in 1..(2 * (n - i)) |->
                 IF j % 2 = 1
                 THEN ArgB(IF upvalues[i + (j + 1) \div 2].isLocal THEN 1 ELSE 0)
                 ELSE ArgB(upvalues[i + j \div 2].index)]]

function(s) ==
    LET f == Top(s) IN
    IF f.pc = 0 THEN
        LET s1 == beginScope(initCompiler(s, f.v.type))
            s2 == consume(s1, "TOKEN_LEFT_PAREN", "Expect '(' after function name.")
            v == [compiler |-> s1.current]
        IN IF ~check(s2, "TOKEN_RIGHT_PAREN") THEN Goto(s2, 2, v) ELSE FunctionBody(s2, v)
    ELSE IF f.pc = 2 THEN
        LET s1 == Parameter1(s)
        IN IF check(s1, "TOKEN_COMMA") THEN match(s1, "TOKEN_COMMA")
           ELSE FunctionBody(s1, f.v)
    ELSE LET fid == Cur(s).function
             s1 == endCompiler(s)
             c == makeConstant(s1, FunctionVal(fid))
             s2 == emitBytes(c.s, OpB("OP_CLOSURE"), ArgB(c.index))
         IN Return(EmitUpvalues(s2, s2.compilers[f.v.compiler].upvalues, 0,
                                s2.functions[fid].upvalueCount))

method(s) ==
    LET f == Top(s) IN
    IF f.pc = 0 THEN
        LET s1 == consume(s, "TOKEN_IDENTIFIER", "Expect method name.")
            c == identifierConstant(s1, s1.parser.previous)
            type == IF s1.parser.previous.lexeme = "init"
                    THEN "TYPE_INITIALIZER" ELSE "TYPE_METHOD"
        IN Call(Goto(c.s, 1, [constant |-> c.index]), "function", [type |-> type])
    ELSE Return(emitBytes(s, OpB("OP_METHOD"), ArgB(f.v.constant)))

\* classDeclaration() from its loop over the methods.
ClassBody(s, v) ==
    IF ~check(s, "TOKEN_RIGHT_BRACE") /\ ~check(s, "TOKEN_EOF")
    THEN Call(Goto(s, 4, v), "method", NoLocals)
    ELSE LET s1 == emitByte(consume(s, "TOKEN_RIGHT_BRACE", "Expect '}' after class body."),
                            OpB("OP_POP"))
             s2 == IF s1.classCompilers[v.classCompiler].hasSuperclass
                   THEN endScope(s1) ELSE s1
         IN Return([s2 EXCEPT !.currentClass = s2.classCompilers[s2.currentClass].enclosing])

classDeclaration(s) ==
    LET f == Top(s) IN
    CASE f.pc = 0 ->
        LET s1 == consume(s, "TOKEN_IDENTIFIER", "Expect class name.")
            className == s1.parser.previous.lexeme
            c == identifierConstant(s1, s1.parser.previous)
            s2 == emitBytes(declareVariable(c.s), OpB("OP_CLASS"), ArgB(c.index))
            s3 == defineVariable(s2, c.index)
            cc == Len(s3.classCompilers) + 1
            s4 == [s3 EXCEPT !.classCompilers =
                                Append(@, [enclosing |-> s3.currentClass,
                                           name |-> s3.parser.previous.lexeme,
                                           hasSuperclass |-> FALSE]),
                             !.currentClass = cc]
            v == [className |-> className, classCompiler |-> cc]
        IN IF check(s4, "TOKEN_LESS")
           THEN variable(Goto(consume(match(s4, "TOKEN_LESS"), "TOKEN_IDENTIFIER",
                                      "Expect superclass name."), 1, v),
                         FALSE)
           ELSE Call(Goto(s4, 3, v), "namedVariable",
                     [name |-> className, canAssign |-> FALSE])
      \* the superclass clause, after variable(false)
      [] f.pc = 1 ->
        LET s1 == IF identifiersEqual(f.v.className, s.parser.previous.lexeme)
                  THEN error(s, "A class can't inherit from itself.")
                  ELSE s
            s2 == defineVariable(addLocal(beginScope(s1), syntheticToken("super").lexeme), 0)
        IN Call(Goto(s2, 2, f.v), "namedVariable",
                [name |-> f.v.className, canAssign |-> FALSE])
      [] f.pc = 2 ->
        LET s1 == emitByte(s, OpB("OP_INHERIT"))
            s2 == [s1 EXCEPT !.classCompilers[f.v.classCompiler].hasSuperclass = TRUE]
        IN Call(Goto(s2, 3, f.v), "namedVariable",
                [name |-> f.v.className, canAssign |-> FALSE])
      [] f.pc = 3 ->
        ClassBody(consume(s, "TOKEN_LEFT_BRACE", "Expect '{' before class body."), f.v)
      \* method() has returned
      [] OTHER -> ClassBody(s, f.v)

(***************************************************************************)
(* The roots the compiler shows to the collector.                          *)
(***************************************************************************)
MarkInnermostOnly(s, c) == IF c = 0 THEN {} ELSE {s.compilers[c].function}

\* The loop of markCompilerRoots(): the functions of frame c and of the frames
\* that enclose it.
RECURSIVE MarkChain(_, _)
MarkChain(s, c) ==
    IF c = 0 THEN {} ELSE {s.compilers[c].function} \cup MarkChain(s, s.compilers[c].enclosing)

markCompilerRoots(s) == MarkChain(s, s.current)

\* The function objects in the constant pool of function f.
ConstantFunctions(s, f) ==
    {s.functions[f].constants[i].obj :
        i \in {j \in 1..Len(s.functions[f].constants) :
                  s.functions[f].constants[j].kind = "function"}}

\* The collector keeps a marked function and the constants of its chunk.
RECURSIVE Trace(_, _)
Trace(s, gray) ==
    LET next == gray \cup UNION {ConstantFunctions(s, f) : f \in gray}
    IN IF next = gray THEN gray ELSE Trace(s, next)

\* The function objects a collection would keep for the compiler.
Protected(s) == Trace(s, markCompilerRoots(s))

ReturnsFunctionAlways(hadError, fid) == fid

\* What compile() returns: NULL (0) or the script function.
CompileResult(hadError, fid) == IF hadError THEN 0 ELSE fid

compile(s) ==
    IF Top(s).pc = 0 THEN
        LET s1 == initCompiler([s EXCEPT !.scanPos = 0], "TYPE_SCRIPT")
            s2 == [s1 EXCEPT !.parser.hadError = FALSE, !.parser.panicMode = FALSE]
        IN Goto(advance(s2), 1, [compiler |-> s1.current])
    ELSE IF ~check(s, "TOKEN_EOF") THEN Call(s, "declaration", NoLocals)
    ELSE LET s1 == match(s, "TOKEN_EOF")
             fid == Cur(s1).function
             s2 == endCompiler(s1)
         IN Return([s2 EXCEPT !.result = CompileResult(s2.parser.hadError, fid)])

(***************************************************************************)
(* The sources compile() is run on.                                        *)
(***************************************************************************)
\* The scenarios of the specification and the programs the error rules are about.
SrcPrint == LexAll(<<"print", "1", "+", "2", ";">>)
SrcShadow ==
    LexAll(<<"var", "a", "=", "1", ";", "{", "var", "a", "=", "2", ";",
             "print", "a", ";", "}", "print", "a", ";">>)
SrcClosure ==
    LexAll(<<"fun", "outer", "(", ")", "{", "var", "x", "=", "1", ";",
             "fun", "inner", "(", ")", "{", "print", "x", ";", "}",
             "inner", "(", ")", ";", "}">>)
SrcClosureBlock ==
    LexAll(<<"fun", "outer", "(", ")", "{", "{", "var", "x", "=", "1", ";",
             "fun", "inner", "(", ")", "{", "print", "x", ";", "}",
             "inner", "(", ")", ";", "}", "}">>)
SrcIf == LexAll(<<"if", "(", "true", ")", "print", "1", ";", "else", "print", "2", ";">>)
SrcSuperCall ==
    LexAll(<<"class", "A", "{", "}", "class", "B", "<", "A", "{",
             "greet", "(", ")", "{", "super", ".", "greet", "(", ")", ";", "}", "}">>)
SrcSuperCallArgs ==
    LexAll(<<"class", "A", "{", "}", "class", "B", "<", "A", "{",
             "greet", "(", "x", ")", "{", "super", ".", "greet", "(", "x", ",", "1", ")",
             ";", "}", "}">>)
SrcSuperGet ==
    LexAll(<<"class", "A", "{", "}", "class", "B", "<", "A", "{",
             "greet", "(", ")", "{", "super", ".", "greet", ";", "}", "}">>)
SrcSuperNoSuperclass ==
    LexAll(<<"class", "A", "{", "m", "(", ")", "{", "super", ".", "m", "(", ")", ";", "}", "}">>)
SrcGlobalAssign == LexAll(<<"var", "a", ";", "a", "=", "a", "+", "1", ";">>)

SrcOwnInit == LexAll(<<"{", "var", "a", "=", "a", ";", "}">>)
SrcOwnInitInner ==
    LexAll(<<"{", "var", "a", "=", "1", ";", "{", "var", "a", "=", "a", ";", "}", "}">>)
SrcOwnInitGlobal == LexAll(<<"var", "a", "=", "a", ";">>)
SrcLocalRecursion ==
    LexAll(<<"{", "fun", "f", "(", ")", "{", "f", "(", ")", ";", "}", "}">>)
SrcInitFromOuter ==
    LexAll(<<"{", "var", "b", "=", "1", ";", "{", "var", "a", "=", "b", ";", "}", "}">>)

SrcDupLocal == LexAll(<<"{", "var", "x", ";", "var", "x", ";", "}">>)
SrcShadowLocal == LexAll(<<"{", "var", "x", ";", "{", "var", "x", ";", "}", "}">>)
SrcSiblingScopes ==
    LexAll(<<"{", "{", "var", "x", ";", "}", "{", "var", "x", ";", "}", "}">>)
SrcDupGlobal == LexAll(<<"var", "x", ";", "var", "x", ";">>)
SrcDupParam == LexAll(<<"fun", "f", "(", "a", ",", "a", ")", "{", "}">>)
SrcParamBody == LexAll(<<"fun", "f", "(", "a", ")", "{", "var", "a", ";", "}">>)
SrcSelfInherit == LexAll(<<"class", "A", "<", "A", "{", "}">>)

SrcReturnTop == LexAll(<<"return", ";">>)
SrcReturnTopValue == LexAll(<<"return", "1", ";">>)
SrcReturnFun == LexAll(<<"fun", "f", "(", ")", "{", "return", "1", ";", "}">>)
SrcReturnFunBare == LexAll(<<"fun", "f", "(", ")", "{", "return", ";", "}">>)
SrcReturnInitValue ==
    LexAll(<<"class", "C", "{", "init", "(", ")", "{", "return", "1", ";", "}", "}">>)
SrcReturnInitBare ==
    LexAll(<<"class", "C", "{", "init", "(", ")", "{", "return", ";", "}", "}">>)
SrcReturnMethod ==
    LexAll(<<"class", "C", "{", "m", "(", ")", "{", "return", "1", ";", "}",
             "n", "(", ")", "{", "return", ";", "}", "}">>)
SrcReturnMixed ==
    LexAll(<<"fun", "f", "(", ")", "{", "return", "1", ";", "}",
             "class", "C", "{", "init", "(", ")", "{", "return", "1", ";", "}", "}",
             "return", ";">>)

SrcAssignSum == LexAll(<<"a", "+", "b", "=", "c", ";">>)
SrcAssignProduct == LexAll(<<"a", "*", "b", "=", "c", ";">>)
SrcAssignNegate == LexAll(<<"-", "a", "=", "c", ";">>)
SrcAssignGroup == LexAll(<<"(", "a", ")", "=", "c", ";">>)
SrcAssignSumProperty == LexAll(<<"a", "+", "b", ".", "c", "=", "d", ";">>)
SrcAssign == LexAll(<<"a", "=", "c", ";">>)
SrcAssignProperty == LexAll(<<"a", ".", "b", "=", "c", ";">>)
SrcAssignLocal == LexAll(<<"{", "var", "a", ";", "a", "=", "1", ";", "}">>)

SrcWhile == LexAll(<<"while", "(", "a", "<", "2", ")", "a", "=", "a", "+", "1", ";">>)
SrcFor ==
    LexAll(<<"for", "(", "var", "i", "=", "0", ";", "i", "<", "2", ";",
             "i", "=", "i", "+", "1", ")", "print", "i", ";">>)
SrcForEmpty == LexAll(<<"for", "(", ";", ";", ")", "{", "}">>)
SrcForExpression == LexAll(<<"for", "(", "a", ";", "a", ";", ")", "b", ";">>)
SrcAndOr == LexAll(<<"print", "a", "and", "b", "or", "!", "c", ";">>)
SrcCalls ==
    LexAll(<<"f", "(", "g", "(", "1", ",", "2", ")", ",", "\"s\"", ")", ".", "m",
             "(", "a", ")", ".", "p", ";">>)
SrcThisTop == LexAll(<<"print", "this", ";">>)
SrcThisNested ==
    LexAll(<<"class", "A", "{", "m", "(", ")", "{", "fun", "g", "(", ")", "{",
             "this", ".", "x", "=", "1", ";", "}", "}", "}">>)
SrcCapture3 ==
    LexAll(<<"fun", "a", "(", "x", ")", "{", "fun", "b", "(", ")", "{",
             "fun", "c", "(", ")", "{", "x", "=", "x", ";", "y", ";", "}", "}", "}">>)
SrcCaptureNearest ==
    LexAll(<<"fun", "a", "(", "x", ")", "{", "fun", "b", "(", "x", ")", "{",
             "fun", "c", "(", ")", "{", "x", ";", "}", "}", "}">>)
SrcCaptureShadow ==
    LexAll(<<"var", "x", ";", "fun", "a", "(", "x", ")", "{",
             "fun", "b", "(", "x", ")", "{", "{", "var", "x", ";", "x", "=", "1", ";",
             "}", "}", "}">>)
SrcIfErrors ==
    LexAll(<<"if", "(", "a", "+", ")", "+", ";", "else", "{", "fun", "f", "(", ")", "{",
             "if", "(", "}", "}">>)
SrcLoopErrors ==
    LexAll(<<"for", "(", "var", "i", "=", ";", "i", "and", ";", ")", "{",
             "while", "(", "a", "or", ")", "fun", "}">>)
SrcThisInFunction == LexAll(<<"fun", "f", "(", ")", "{", "this", ".", "x", ";", "}">>)
SrcSuperTop == LexAll(<<"super", ".", "x", ";">>)
SrcSuperInFunction == LexAll(<<"fun", "f", "(", ")", "{", "super", ".", "x", ";", "}">>)
SrcThisAsName ==
    LexAll(<<"{", "var", "this", ";", "fun", "this", "(", "this", ")", "{", "}",
             "class", "this", "<", "this", "{", "this", "(", ")", "{", "this", ";", "}", "}",
             "}">>)
SrcScanError == LexAll(<<"@", "return", ";">>)
SrcScanErrorInSync == LexAll(<<"a", "+", ";", "@", "b", "b", ";", "+", ";">>)
SrcClassBodyError == LexAll(<<"class", "A", "{", "+", "}", "f", "(", "a", ",", ")", ";">>)
SrcSyncOverError == LexAll(<<"a", "a", "@", ";", "+", ";">>)
SrcTwoErrors == LexAll(<<"a", "+", ";", "{", "var", "x", "=", "x", ";", "}">>)

Scenarios == {
    SrcPrint, SrcShadow, SrcClosure, SrcClosureBlock, SrcIf, SrcSuperCall,
    SrcSuperCallArgs, SrcSuperGet, SrcSuperNoSuperclass, SrcGlobalAssign,
    SrcOwnInit, SrcOwnInitInner, SrcOwnInitGlobal, SrcLocalRecursion, SrcInitFromOuter,
    SrcDupLocal, SrcShadowLocal, SrcSiblingScopes, SrcDupGlobal, SrcDupParam,
    SrcParamBody, SrcSelfInherit,
    SrcReturnTop, SrcReturnTopValue, SrcReturnFun, SrcReturnFunBare,
    SrcReturnInitValue, SrcReturnInitBare, SrcReturnMethod, SrcReturnMixed,
    SrcAssignSum, SrcAssignProduct, SrcAssignNegate, SrcAssignGroup,
    SrcAssignSumProperty, SrcAssign, SrcAssignProperty, SrcAssignLocal,
    SrcWhile, SrcFor, SrcForEmpty, SrcForExpression, SrcAndOr, SrcCalls,
    SrcThisTop, SrcThisNested, SrcScanError, SrcScanErrorInSync, SrcTwoErrors,
    SrcCapture3, SrcCaptureNearest, SrcCaptureShadow, SrcIfErrors, SrcLoopErrors,
    SrcThisInFunction, SrcSuperTop, SrcSuperInFunction, SrcThisAsName,
    SrcSyncOverError, SrcClassBodyError
}

\* `fun f(p1, ..., pn) { <body> }`
ParameterName(i) == Token("TOKEN_IDENTIFIER", "p" \o ToString(i))
SrcParameters(n, body) ==
    LexAll(<<"fun", "f", "(">>)
      \o [i \in 1..(IF n = 0 THEN 0 ELSE 2 * n - 1) |->
             IF i % 2 = 1 THEN ParameterName((i + 1) \div 2) ELSE Lex(",")]
      \o LexAll(<<")", "{">>) \o body \o LexAll(<<"}">>)

\* `f(nil, ..., nil);` with n arguments
SrcArguments(n) ==
    LexAll(<<"f", "(">>)
      \o [i \in 1..(IF n = 0 THEN 0 ELSE 2 * n - 1) |->
             IF i % 2 = 1 THEN Lex("nil") ELSE Lex(",")]
      \o LexAll(<<")", ";">>)

\* `x1, ..., xn` for the prefix x
IdentifierList(prefix, n) ==
    [i \in 1..(IF n = 0 THEN 0 ELSE 2 * n - 1) |->
        IF i % 2 = 1 THEN Token("TOKEN_IDENTIFIER", prefix \o ToString((i + 1) \div 2))
        ELSE Lex(",")]

\* `fun o(p1, ..., pn) { fun m(q1, ..., qk) { fun i() { g(p1, ..., pn); g(q1, ..., qk); } } }`:
\* i captures n variables of o through m and k variables of m.
SrcCaptures(n, k) ==
    LexAll(<<"fun", "o", "(">>) \o IdentifierList("p", n)
      \o LexAll(<<")", "{", "fun", "m", "(">>) \o IdentifierList("q", k)
      \o LexAll(<<")", "{", "fun", "i", "(", ")", "{", "g", "(">>)
      \o IdentifierList("p", n) \o LexAll(<<")", ";", "g", "(">>)
      \o IdentifierList("q", k) \o LexAll(<<")", ";", "}", "}", "}">>)

\* o has room for 254 parameters beside its slot 0 and the local m; with them i
\* needs two variables more for 256 upvalues and three more for 257.
CaptureCounts == {<<1, 1>>, <<2, 1>>, <<UINT8_COUNT - 2, 2>>, <<UINT8_COUNT - 2, 3>>}
CaptureSources == [nk \in CaptureCounts |-> SrcCaptures(nk[1], nk[2])]

\* The numbers of parameters and of arguments around the limit of 255.
LimitCounts == {0, 1, 2, MAX_ARGS - 1, MAX_ARGS, MAX_ARGS + 1, MAX_ARGS + 2}

LimitSources ==
    {SrcParameters(n, <<>>) : n \in LimitCounts}
      \cup {SrcParameters(n, LexAll(<<"var", "x", ";">>)) : n \in LimitCounts}
      \cup {SrcParameters(n, LexAll(<<"{", "var", "x", ";", "}">>)) : n \in LimitCounts}
      \cup {SrcArguments(n) : n \in LimitCounts}
      \cup {CaptureSources[nk] : nk \in CaptureCounts}

\* Every text of at most MaxFuzzLen of these words.
MaxFuzzLen == 3
FuzzWords == {"a", "=", "+", ";", "{", "}", "var", "(", "return", "@"}
FuzzSources ==
    UNION {{LexAll(ws) : ws \in [1..n -> FuzzWords]} : n \in 0..MaxFuzzLen}

\* Every text of at most MaxFuzzLen of the words that emit jumps.
JumpWords == {"if", "while", "for", "and", "or", "(", ")", ";", "a"}
JumpFuzzSources ==
    UNION {{LexAll(ws) : ws \in [1..n -> JumpWords]} : n \in 0..MaxFuzzLen}

\* The statements `-nil;` (b times) and then `nil;` (a times): 3 and 2 bytes of
\* code each, and no constant.
FillerTokens(a, b) ==
    [i \in 1..(3 * b + 2 * a) |->
        IF i <= 3 * b THEN Lex(<<"-", "nil", ";">>[((i - 1) % 3) + 1])
        ELSE Lex(<<"nil", ";">>[((i - 3 * b - 1) % 2) + 1])]

\* `while (true) { <filler> }` and `if (true) { <filler> }`
WhileSource(a, b) ==
    LexAll(<<"while", "(", "true", ")", "{">>) \o FillerTokens(a, b) \o LexAll(<<"}">>)
IfSource(a, b) ==
    LexAll(<<"if", "(", "true", ")", "{">>) \o FillerTokens(a, b) \o LexAll(<<"}">>)

\* Bodies of a few bytes.
MaxFiller == 2
BodySources ==
    {WhileSource(a, b) : a \in 0..MaxFiller, b \in 0..1}
      \cup {IfSource(a, b) : a \in 0..MaxFiller, b \in 0..1}

Sources ==
    Scenarios \cup LimitSources \cup FuzzSources \cup JumpFuzzSources \cup BodySources

(***************************************************************************)
(* The state machine.                                                      *)
(***************************************************************************)
Init ==
    /\ source \in Sources
    /\ scanPos = 0
    /\ parser = [current |-> ZeroToken, previous |-> ZeroToken,
                 hadError |-> FALSE, panicMode |-> FALSE]
    /\ compilers = <<>>
    /\ current = 0
    /\ classCompilers = <<>>
    /\ currentClass = 0
    /\ functions = <<>>
    /\ stack = <<Frame("compile", 0, NoLocals)>>
    /\ ret = 0
    /\ errlog = <<>>
    /\ result = -1

Compile == Running("compile") /\ Commit(compile(St))
Declaration == Running("declaration") /\ Commit(declaration(St))
Synchronize == Running("synchronize") /\ Commit(synchronize(St))
ClassDeclaration == Running("classDeclaration") /\ Commit(classDeclaration(St))
Method == Running("method") /\ Commit(method(St))
FunDeclaration == Running("funDeclaration") /\ Commit(funDeclaration(St))
Function == Running("function") /\ Commit(function(St))
VarDeclaration == Running("varDeclaration") /\ Commit(varDeclaration(St))
Statement == Running("statement") /\ Commit(statement(St))
Block == Running("block") /\ Commit(block(St))
PrintStatement == Running("printStatement") /\ Commit(printStatement(St))
ExpressionStatement == Running("expressionStatement") /\ Commit(expressionStatement(St))
ReturnStatement == Running("returnStatement") /\ Commit(returnStatement(St))
IfStatement == Running("ifStatement") /\ Commit(ifStatement(St))
WhileStatment == Running("whileStatment") /\ Commit(whileStatment(St))
ForStatement == Running("forStatement") /\ Commit(forStatement(St))
ParsePrecedence == Running("parsePrecedence") /\ Commit(parsePrecedence(St))
NamedVariable == Running("namedVariable") /\ Commit(namedVariable(St))
Grouping == Running("grouping") /\ Commit(grouping(St))
Unary == Running("unary") /\ Commit(unary(St))
Binary == Running("binary") /\ Commit(binary(St))
CallRule == Running("call") /\ Commit(call(St))
ArgumentList == Running("argumentList") /\ Commit(argumentList(St))
Dot == Running("dot") /\ Commit(dot(St))
And == Running("and_") /\ Commit(and_(St))
Or == Running("or_") /\ Commit(or_(St))
Super == Running("super_") /\ Commit(super_(St))

Next ==
    \/ Compile
    \/ Declaration
    \/ Synchronize
    \/ ClassDeclaration
    \/ Method
    \/ FunDeclaration
    \/ Function
    \/ VarDeclaration
    \/ Statement
    \/ Block
    \/ PrintStatement
    \/ ExpressionStatement
    \/ ReturnStatement
    \/ IfStatement
    \/ WhileStatment
    \/ ForStatement
    \/ ParsePrecedence
    \/ NamedVariable
    \/ Grouping
    \/ Unary
    \/ Binary
    \/ CallRule
    \/ ArgumentList
    \/ Dot
    \/ And
    \/ Or
    \/ Super

Spec == Init /\ [][Next]_vars

\* compile() has returned.
Done == stack = <<>>

(***************************************************************************)
(* A second compile() of the same text in the same process: the globals,   *)
(* the heap and stderr are those the first compile() left.                 *)
(***************************************************************************)
\* The root frames of the calls of compile() so far.
ScriptFrames == {c \in 1..Len(compilers) : compilers[c].type = "TYPE_SCRIPT"}

Recompile ==
    /\ Done
    /\ Cardinality(ScriptFrames) = 1
    /\ stack' = <<Frame("compile", 0, NoLocals)>>
    /\ UNCHANGED <<source, scanPos, parser, compilers, current, classCompilers,
                   currentClass, functions, ret, errlog, result>>

NextTwice == Next \/ Recompile

SpecTwice == Init /\ [][NextTwice]_vars

(***************************************************************************)
(* Compilations that are under way, with a body too long to be reached     *)
(* one statement at a time: compile() is at the end of the body of the     *)
(* `while` or `if` statement that is the whole program.                    *)
(***************************************************************************)
\* The code of the filler statements.
FillerCode(a, b) ==
    [i \in 1..(3 * b + 2 * a) |->
        IF i <= 3 * b THEN OpB(<<"OP_NIL", "OP_NEGATE", "OP_POP">>[((i - 1) % 3) + 1])
        ELSE OpB(<<"OP_NIL", "OP_POP">>[((i - 3 * b - 1) % 2) + 1])]

\* compile() when statement() has returned to the activation `frame` of
\* whileStatment() or ifStatement(), the source being src.
BodyState(src, frame, a, b) ==
    [source |-> src, scanPos |-> Len(src),
     parser |-> [current |-> EofToken, previous |-> Lex("}"),
                 hadError |-> FALSE, panicMode |-> FALSE],
     compilers |-> <<[enclosing |-> 0, function |-> 1, type |-> "TYPE_SCRIPT",
                      locals |-> <<Local("this", 0, FALSE)>>, upvalues |-> <<>>,
                      scopeDepth |-> 0]>>,
     current |-> 1, classCompilers |-> <<>>, currentClass |-> 0,
     functions |-> <<[newFunction EXCEPT
                        !.code = <<OpB("OP_TRUE"), OpB("OP_JUMP_IF_FALSE"),
                                   ArgB(255), ArgB(255), OpB("OP_POP")>>
                                 \o FillerCode(a, b)]>>,
     stack |-> <<Frame("compile", 1, [compiler |-> 1]),
                 Frame("declaration", 1, NoLocals), frame>>,
     ret |-> 0, errlog |-> <<>>, result |-> -1]

WhileState(a, b) ==
    BodyState(WhileSource(a, b),
              Frame("whileStatment", 2, [loopStart |-> 0, exitJump |-> 2]), a, b)
IfState(a, b) ==
    BodyState(IfSource(a, b), Frame("ifStatement", 2, [thenJump |-> 2]), a, b)

\* The filler of a body of n bytes.
FillerOf(n) == [a |-> (n - 3 * (n % 2)) \div 2, b |-> n % 2]

\* Body lengths around the largest offsets: the LOOP of the `while` jumps over
\* the body and 8 bytes more, its JUMP_IF_FALSE and that of the `if` over the
\* body and 4 bytes more.
LoopBodies == {UINT16_MAX - 9, UINT16_MAX - 8, UINT16_MAX - 7}
JumpBodies == {UINT16_MAX - 5, UINT16_MAX - 4, UINT16_MAX - 3}
LongStates ==
    {WhileState(FillerOf(n).a, FillerOf(n).b) : n \in LoopBodies \cup JumpBodies}
      \cup {IfState(FillerOf(n).a, FillerOf(n).b) : n \in JumpBodies}

\* Compilations at the end of a body of a few bytes, which compile() reaches from
\* its start as well.
ShortStates ==
    {WhileState(a, b) : a \in 0..MaxFiller, b \in 0..1}
      \cup {IfState(a, b) : a \in 0..MaxFiller, b \in 0..1}

\* The variables hold the state s.
Holds(s) ==
    /\ source = s.source /\ scanPos = s.scanPos /\ parser = s.parser
    /\ compilers = s.compilers /\ current = s.current
    /\ classCompilers = s.classCompilers /\ currentClass = s.currentClass
    /\ functions = s.functions /\ stack = s.stack /\ ret = s.ret
    /\ errlog = s.errlog /\ result = s.result

InitShort == \E s \in ShortStates : Holds(s)
InitLong == \E s \in LongStates : Holds(s)

\* compile() from its start on the sources, and from the ends of the bodies.
SpecJump == (InitShort \/ Init \/ InitLong) /\ [][Next]_vars

\* The function of the top-level frame, which compile() creates first.
ScriptFunction == compilers[1].function

(***************************************************************************)
(* Properties.                                                             *)
(***************************************************************************)
\* C1: compile() returns the top-level script function if and only if no error
\* was reported (printed) at any point of the compilation, and NULL if one was,
\* in whatever frame; hadError is true exactly when an error has been reported,
\* and no step of a compilation resets it from true to false.
C1_ReturnsFunctionIffNoError ==
    /\ [](parser.hadError <=> Stderr(errlog) # <<>>)
    /\ [](Done => /\ (result = ScriptFunction <=> Stderr(errlog) = <<>>)
                  /\ (Stderr(errlog) # <<>> => result = 0))
    /\ [][parser.hadError => parser.hadError']_vars

\* An error reported inside a nested frame (an initializer) makes compile() return NULL.
C1_Witness ==
    /\ Done /\ source = SrcReturnInitValue
    /\ result = 0 /\ Len(compilers) = 2
    /\ Stderr(errlog) = <<[msg |-> "Can't return a value from an initializer.",
                           printed |-> TRUE]>>

\* The positions of a chunk that hold one of these opcodes.
OpPositions(code, ops) == {j \in 1..Len(code) : code[j].op \in ops}
\* The function object of this name.
FunctionNamed(name) == CHOOSE f \in 1..Len(functions) : functions[f].name = name
\* How many instructions of these opcodes the compiled program holds.
RECURSIVE OpTotal(_, _)
OpTotal(f, ops) ==
    IF f = 0 THEN 0
    ELSE Cardinality(OpPositions(functions[f].code, ops)) + OpTotal(f - 1, ops)

\* C2: a `super` expression in a method of a class with a superclass emits
\* exactly one access path: a program that compiles without error holds one
\* SUPER_INVOKE or GET_SUPER instruction per `super` expression of its text.
C2_OneSuperAccessPerExpression ==
    (Done /\ Stderr(errlog) = <<>>) =>
        OpTotal(Len(functions), {"OP_SUPER_INVOKE", "OP_GET_SUPER"})
            = Cardinality({i \in 1..Len(source) : source[i].type = "TOKEN_SUPER"})

Appended(c) ==
    SubSeq(functions'[compilers[c].function].code,
           Len(functions[compilers[c].function].code) + 1,
           Len(functions'[compilers[c].function].code))

\* A step that removes locals of frame c ends by emitting, for each of them from
\* the top down, CLOSE_UPVALUE if it was captured and POP if it was not.
RemovedLocalsAreClosedOrPopped(c) ==
    LET n == Len(compilers[c].locals)
        m == Len(compilers'[c].locals)
        new == Appended(c)
    IN m < n =>
        /\ Len(new) >= n - m
        /\ \A k \in 1..(n - m) :
              new[Len(new) - (n - m) + k] =
                  IF compilers[c].locals[n - k + 1].isCaptured
                  THEN OpB("OP_CLOSE_UPVALUE") ELSE OpB("OP_POP")

Reported == [i \in 1..Len(Stderr(errlog)) |-> Stderr(errlog)[i].msg]
SetOps == {"OP_SET_LOCAL", "OP_SET_UPVALUE", "OP_SET_GLOBAL", "OP_SET_PROPERTY"}

\* A step of parsePrecedence() that leaves its infix loop with canAssign true and
\* `=` as the current token calls error("Invalid assignment target.") once, after
\* the scan errors that advancing past the `=` may have logged.
InvalidTargetIsReported ==
    LET f == stack[Len(stack)]
    IN (/\ Running("parsePrecedence") /\ f.pc = 1 /\ f.v.canAssign
        /\ InfixStops(f.v.precedence, parser.current.type)
        /\ parser.current.type = "TOKEN_EQUAL")
       => LET new == SubSeq(errlog', Len(errlog) + 1, Len(errlog'))
          IN /\ new # <<>>
             /\ new[Len(new)] = [msg |-> "Invalid assignment target.",
                                 printed |-> ~parser.panicMode /\ Len(new) = 1]
             /\ \A k \in 1..(Len(new) - 1) : new[k].msg # "Invalid assignment target."

\* A step of namedVariable() or dot() entered with canAssign false consumes no
\* `=` and emits no SET_* instruction.
NoAssignmentWithoutCanAssign ==
    LET f == stack[Len(stack)]
    IN (stack # <<>> /\ f.fn \in {"namedVariable", "dot"} /\ f.pc = 0 /\ ~f.v.canAssign)
       => /\ OpPositions(Appended(current), SetOps) = {}
          /\ parser'.previous.type = "TOKEN_EQUAL" => parser'.previous = parser.previous
          /\ f.fn = "namedVariable" =>
                scanPos' = scanPos /\ parser'.current = parser.current
          /\ Len(stack') < Len(stack) \/ stack'[Len(stack')].fn = "argumentList"

\* C4: `a + b = c;`, `a * b = c;`, `-a = c;` and `(a) = c;` report "Invalid
\* assignment target." and emit no SET_* instruction; an identifier or property
\* parsed with canAssign false leaves a following `=` where it is and emits a
\* getter, and parsePrecedence() reports the `=` it finds left over; `a = c;`,
\* `a.b = c;` and an assignment to a local report nothing and emit the setter.
C4_InvalidAssignmentTarget ==
    /\ [][InvalidTargetIsReported /\ NoAssignmentWithoutCanAssign]_vars
    /\ []((Done /\ source \in {SrcAssignSum, SrcAssignProduct, SrcAssignNegate,
                                SrcAssignGroup, SrcAssignSumProperty}) =>
            /\ Reported = <<"Invalid assignment target.">>
            /\ OpTotal(Len(functions), SetOps) = 0)
    /\ []((Done /\ source \in {SrcAssign, SrcAssignProperty, SrcAssignLocal}) =>
            /\ errlog = <<>>
            /\ OpTotal(Len(functions), SetOps) = 1
            /\ OpTotal(Len(functions),
                       {CASE source = SrcAssign -> "OP_SET_GLOBAL"
                          [] source = SrcAssignProperty -> "OP_SET_PROPERTY"
                          [] OTHER -> "OP_SET_LOCAL"}) = 1)

\* `a + b = c;` has been compiled: b was parsed with canAssign false and the `=`
\* was reported.
C4_Witness ==
    /\ Done /\ source = SrcAssignSum
    /\ Reported = <<"Invalid assignment target.">>

OwnInitializerMessage == "Can't read local variable in it's own initializer."

\* A step of namedVariable() calls error() with the own-initializer message
\* exactly when the innermost local of the current frame that has the name is
\* still uninitialized (depth -1).
OwnInitializerIsReported ==
    LET f == stack[Len(stack)]
        locals == compilers[current].locals
        i == FindLocal(locals, f.v.name, Len(locals) - 1)
        new == SelectSeq(SubSeq(errlog', Len(errlog) + 1, Len(errlog')),
                         LAMBDA e : e.msg = OwnInitializerMessage)
    IN (Running("namedVariable") /\ f.pc = 0) =>
          IF i # -1 /\ locals[i + 1].depth = -1
          THEN /\ compilers[current].scopeDepth > 0
               /\ new = <<[msg |-> OwnInitializerMessage, printed |-> ~parser.panicMode]>>
          ELSE new = <<>>

\* C5: in a local scope a reference to a name whose innermost matching local of
\* the current frame is declared but uninitialized is the own-initializer error:
\* `{ var a = a; }` and `{ var a = 1; { var a = a; } }` report it; `var a = a;`
\* at global scope, a local function calling itself and an initializer reading a
\* local of an enclosing scope report nothing.
C5_OwnInitializer ==
    /\ [][OwnInitializerIsReported]_vars
    /\ []((Done /\ source \in {SrcOwnInit, SrcOwnInitInner}) =>
            Reported = <<OwnInitializerMessage>>)
    /\ []((Done /\ source \in {SrcOwnInitGlobal, SrcLocalRecursion, SrcInitFromOuter}) =>
            errlog = <<>>)

\* `{ var a = 1; { var a = a; } }` has been compiled: the inner a was the match.
C5_Witness ==
    /\ Done /\ source = SrcOwnInitInner
    /\ Reported = <<OwnInitializerMessage>>

AlreadyDeclaredMessage == "Already variable with this name in this scope."

\* The states in which the running function is about to call declareVariable():
\* varDeclaration(), funDeclaration(), classDeclaration() and the parameter loop
\* of function() call it right after consuming the name.
DeclareInputs ==
    IF stack # <<>>
       /\ \/ /\ stack[Len(stack)].fn \in {"varDeclaration", "funDeclaration",
                                           "classDeclaration"}
             /\ stack[Len(stack)].pc = 0
          \/ stack[Len(stack)].fn = "function" /\ stack[Len(stack)].pc = 2
    THEN {consume(St, "TOKEN_IDENTIFIER", "Expect variable name.")}
    ELSE {}

\* The locals of the current frame declared in its innermost open scope that have
\* the name being declared.
SameScopeSameName(s) ==
    {j \in 1..Len(Cur(s).locals) :
        /\ Cur(s).locals[j].depth \in {-1, Cur(s).scopeDepth}
        /\ Cur(s).locals[j].name = s.parser.previous.lexeme}

\* declareVariable() reports the redeclaration exactly when the scope is local and
\* holds the name already.
DeclareReportsIffSameScope(s) ==
    LET new == SubSeq(declareVariable(s).errlog, Len(s.errlog) + 1,
                      Len(declareVariable(s).errlog))
    IN (\E k \in 1..Len(new) : new[k].msg = AlreadyDeclaredMessage)
         <=> (Cur(s).scopeDepth > 0 /\ SameScopeSameName(s) # {})

\* declareVariable() has appended a local of depth -1 with the name.
DeclareAppends(s) ==
    Cur(declareVariable(s)).locals =
        Append(Cur(s).locals, Local(s.parser.previous.lexeme, -1, FALSE))

DeclareInstances ==
    /\ (Done /\ source \in {SrcDupLocal, SrcDupParam, SrcParamBody}) =>
          Reported = <<AlreadyDeclaredMessage>>
    /\ (Done /\ source \in {SrcShadowLocal, SrcSiblingScopes, SrcDupGlobal}) =>
          errlog = <<>>

\* C6, as stated: the redeclaration error is reported if and only if the scope is
\* local and already holds the name, and whenever scopeDepth > 0 a new local of
\* depth -1 is appended.
C6_AlwaysAppends ==
    /\ DeclareInstances
    /\ \A s \in DeclareInputs :
          /\ DeclareReportsIffSameScope(s)
          /\ Cur(s).scopeDepth > 0 => DeclareAppends(s)

\* C6, amended: as above, but the local is appended unless the frame already
\* holds UINT8_COUNT locals; then "Too many local variables in function." is
\* reported and the locals are left as they are.  At scopeDepth 0 nothing is
\* reported and nothing is appended.
C6_AppendsUnlessFull ==
    /\ DeclareInstances
    /\ \A s \in DeclareInputs :
          LET after == declareVariable(s)
          IN /\ DeclareReportsIffSameScope(s)
             /\ Cur(s).scopeDepth = 0 => after = s
             /\ (Cur(s).scopeDepth > 0 /\ Len(Cur(s).locals) < UINT8_COUNT) =>
                   DeclareAppends(s)
             /\ (Cur(s).scopeDepth > 0 /\ Len(Cur(s).locals) = UINT8_COUNT) =>
                   /\ Cur(after).locals = Cur(s).locals
                   /\ after.errlog[Len(after.errlog)].msg =
                         "Too many local variables in function."

\* `{ var x; var x; }`: the second declaration is about to be made, in a local
\* scope that holds x already.
C6_Witness ==
    /\ source = SrcDupLocal
    /\ \E s \in DeclareInputs :
          /\ Cur(s).scopeDepth > 0
          /\ SameScopeSameName(s) # {}
          /\ s.parser.previous.lexeme = "x"

TopLevelReturnMessage == "Can't return from top-level code."
InitializerReturnMessage == "Can't return a value from an initializer."

\* The first step of returnStatement() calls error() exactly for a return in a
\* TYPE_SCRIPT frame and for a return with a value in a TYPE_INITIALIZER frame;
\* a bare `return;` emits the implicit return of the frame.
ReturnReportsByFrameKind ==
    LET f == stack[Len(stack)]
        type == compilers[current].type
        bare == parser.current.type = "TOKEN_SEMICOLON"
        new == SelectSeq(SubSeq(errlog', Len(errlog) + 1, Len(errlog')),
                         LAMBDA e : e.msg \in {TopLevelReturnMessage,
                                               InitializerReturnMessage})
    IN (Running("returnStatement") /\ f.pc = 0) =>
          /\ new = IF type = "TYPE_SCRIPT"
                   THEN <<[msg |-> TopLevelReturnMessage, printed |-> ~parser.panicMode]>>
                   ELSE IF type = "TYPE_INITIALIZER" /\ ~bare
                   THEN <<[msg |-> InitializerReturnMessage,
                           printed |-> ~parser.panicMode]>>
                   ELSE <<>>
          /\ bare => Appended(current) =
                        IF type = "TYPE_INITIALIZER"
                        THEN <<OpB("OP_GET_LOCAL"), ArgB(0), OpB("OP_RETURN")>>
                        ELSE <<OpB("OP_NIL"), OpB("OP_RETURN")>>
          /\ ~bare => Appended(current) = <<>>

\* C7: a return statement reports an error of its own exactly when the frame is
\* the script, or is an initializer and the statement has a value; `return;` and
\* `return 1;` in a function or method and `return;` in an initializer report
\* nothing; a bare return emits GET_LOCAL 0, RETURN in an initializer and NIL,
\* RETURN in every other frame.
C7_ReturnErrors ==
    /\ [][ReturnReportsByFrameKind]_vars
    /\ []((Done /\ source \in {SrcReturnTop, SrcReturnTopValue}) =>
            Reported = <<TopLevelReturnMessage>>)
    /\ []((Done /\ source = SrcReturnInitValue) => Reported = <<InitializerReturnMessage>>)
    /\ []((Done /\ source \in {SrcReturnFun, SrcReturnFunBare, SrcReturnMethod,
                                SrcReturnInitBare}) => errlog = <<>>)
    /\ []((Done /\ source = SrcReturnMixed) =>
            Reported = <<InitializerReturnMessage, TopLevelReturnMessage>>)
    /\ []((Done /\ source = SrcReturnInitBare) =>
            functions[FunctionNamed("init")].code =
                <<OpB("OP_GET_LOCAL"), ArgB(0), OpB("OP_RETURN"),
                  OpB("OP_GET_LOCAL"), ArgB(0), OpB("OP_RETURN")>>)
    /\ []((Done /\ source = SrcReturnFunBare) =>
            functions[FunctionNamed("f")].code =
                <<OpB("OP_NIL"), OpB("OP_RETURN"), OpB("OP_NIL"), OpB("OP_RETURN")>>)

\* A function, an initializer and the script have each returned a value: the
\* last two were reported.
C7_Witness ==
    /\ Done /\ source = SrcReturnMixed
    /\ Reported = <<InitializerReturnMessage, TopLevelReturnMessage>>

\* The 16-bit operand of the instruction at position j of a chunk, as the VM
\* reads it: high byte first.
Operand16(code, j) == code[j + 1].arg * 256 + code[j + 2].arg

OverflowMessages == {"Too much code to jump over.", "Loop body too large."}
\* The overflow messages a step has passed to error(), in order.
NewOverflows ==
    LET new == SelectSeq(SubSeq(errlog', Len(errlog) + 1, Len(errlog')),
                         LAMBDA e : e.msg \in OverflowMessages)
    IN [k \in 1..Len(new) |-> new[k].msg]

\* With no overflow reported, every forward jump of the program leads to an
\* instruction of its chunk, and so does every LOOP.
JumpsLand ==
    (Done /\ \A k \in 1..Len(errlog) : errlog[k].msg \notin OverflowMessages) =>
        \A f \in 1..Len(functions) :
            LET code == functions[f].code
            IN /\ \A j \in OpPositions(code, {"OP_JUMP", "OP_JUMP_IF_FALSE"}) :
                     /\ j + 3 + Operand16(code, j) <= Len(code)
                     /\ code[j + 3 + Operand16(code, j)].op # ""
               /\ \A j \in OpPositions(code, {"OP_LOOP"}) :
                     /\ j + 3 - Operand16(code, j) >= 1
                     /\ code[j + 3 - Operand16(code, j)].op # ""

\* The end of whileStatment(): LOOP holds count - loopStart + 2, count taken after
\* its opcode, and the exit jump the distance from its operand to the end of the
\* LOOP; either is reported when it is over UINT16_MAX and only then.
WhileStoresDistances ==
    LET f == stack[Len(stack)]
        n == Len(functions[compilers[current].function].code)
        code == functions'[compilers[current].function].code
        loop == (n + 1) - f.v.loopStart + 2
        jump == (n + 3) - (f.v.exitJump + 2)
    IN (Running("whileStatment") /\ f.pc = 2) =>
          /\ Len(code) = n + 4
          /\ code[n + 1] = OpB("OP_LOOP") /\ code[n + 4] = OpB("OP_POP")
          /\ loop <= UINT16_MAX => Operand16(code, n + 1) = loop
          /\ jump <= UINT16_MAX => Operand16(code, f.v.exitJump) = jump
          /\ NewOverflows =
                (IF loop > UINT16_MAX THEN <<"Loop body too large.">> ELSE <<>>)
                  \o (IF jump > UINT16_MAX THEN <<"Too much code to jump over.">>
                      ELSE <<>>)

\* ifStatement() after the then branch: the jump over it holds the distance from
\* its operand to the end of the JUMP that follows the branch.
IfStoresDistance ==
    LET f == stack[Len(stack)]
        n == Len(functions[compilers[current].function].code)
        code == functions'[compilers[current].function].code
        jump == (n + 3) - (f.v.thenJump + 2)
    IN (Running("ifStatement") /\ f.pc = 2) =>
          /\ code[n + 1] = OpB("OP_JUMP")
          /\ jump <= UINT16_MAX => Operand16(code, f.v.thenJump) = jump
          /\ NewOverflows =
                IF jump > UINT16_MAX THEN <<"Too much code to jump over.">> ELSE <<>>

\* The jumps patched as the last statement of and_(), or_() and ifStatement()
\* hold the distance from their operand to the end of the chunk.
LastPatchStoresDistance ==
    LET f == stack[Len(stack)]
        n == Len(functions[compilers[current].function].code)
        code == functions'[compilers[current].function].code
        offset == IF f.fn = "ifStatement" THEN f.v.elseJump ELSE f.v.endJump
    IN (stack # <<>> /\ ((f.fn \in {"and_", "or_"} /\ f.pc = 1)
                          \/ (f.fn = "ifStatement" /\ f.pc = 3))) =>
          /\ Len(code) = n
          /\ n - (offset + 2) <= UINT16_MAX => Operand16(code, offset) = n - (offset + 2)
          /\ NewOverflows = IF n - (offset + 2) > UINT16_MAX
                            THEN <<"Too much code to jump over.">> ELSE <<>>

\* compile() reaches the states built for the bodies of a few bytes.
ShortBodiesAreAsBuilt ==
    \A a \in 0..MaxFiller, b \in 0..1 :
        /\ (source = WhileSource(a, b) /\ Running("whileStatment")
               /\ stack[Len(stack)].pc = 2) => St = WhileState(a, b)
        /\ (source = IfSource(a, b) /\ Running("ifStatement")
               /\ stack[Len(stack)].pc = 2) => St = IfState(a, b)

\* The `while` whose LOOP holds the offset 65535, and the next longer one; the
\* `if` whose jump over the then branch holds 65535, and the next longer one.
WhileOfMaxLoop == WhileSource(FillerOf(UINT16_MAX - 8).a, FillerOf(UINT16_MAX - 8).b)
WhileOverMaxLoop == WhileSource(FillerOf(UINT16_MAX - 7).a, FillerOf(UINT16_MAX - 7).b)
IfOfMaxJump == IfSource(FillerOf(UINT16_MAX - 4).a, FillerOf(UINT16_MAX - 4).b)
IfOverMaxJump == IfSource(FillerOf(UINT16_MAX - 3).a, FillerOf(UINT16_MAX - 3).b)

\* C8: a patched JUMP or JUMP_IF_FALSE holds, high byte first, the distance from
\* the byte after its operand to the end of the chunk when it was patched, and
\* leads to an instruction of its chunk; a LOOP holds count - loopStart + 2; a
\* distance of 65535 is stored without error, one of 65536 or more is reported.
C8_JumpOffsets ==
    /\ []JumpsLand
    /\ []ShortBodiesAreAsBuilt
    /\ [][WhileStoresDistances /\ IfStoresDistance /\ LastPatchStoresDistance]_vars
    /\ []((Done /\ source \in {WhileOfMaxLoop, IfOfMaxJump}) =>
            errlog = <<>> /\ result = ScriptFunction)
    /\ []((Done /\ source = WhileOverMaxLoop) =>
            Reported = <<"Loop body too large.">> /\ result = 0)
    /\ []((Done /\ source = IfOverMaxJump) =>
            Reported = <<"Too much code to jump over.">> /\ result = 0)

\* `while (true) { -nil; nil; nil; }` has been compiled: its LOOP jumps back
\* over 15 bytes and its exit jump forward over 11.
C8_Witness ==
    /\ Done /\ source = WhileSource(2, 1)
    /\ errlog = <<>>
    /\ \E j \in OpPositions(functions[1].code, {"OP_LOOP"}) :
          Operand16(functions[1].code, j) = 15
    /\ Operand16(functions[1].code, 2) = 11

TooManyParametersMessage == "Can't have more than 255 parameters."
TooManyArgumentsMessage == "Can't have more than 255 arguments."

\* `fun f(p1, ..., pn) {}` and `f(nil, ..., nil);` for the counts around 255.
ParameterSources == [n \in LimitCounts |-> SrcParameters(n, <<>>)]
ArgumentSources == [n \in LimitCounts |-> SrcArguments(n)]

\* The messages a step has passed to error(), in order.
NewMessages ==
    [k \in 1..(Len(errlog') - Len(errlog)) |-> errlog'[Len(errlog) + k].msg]

\* A turn of the parameter loop of function() reports the parameter exactly when
\* it is the 256th or a later one; a turn of the loop of argumentList() reports
\* the argument exactly when it is the 256th.
CapacityIsReportedAt256 ==
    LET f == stack[Len(stack)]
    IN /\ (Running("function") /\ f.pc = 2) =>
             ((\E k \in DOMAIN NewMessages : NewMessages[k] = TooManyParametersMessage)
                <=> functions[compilers[current].function].arity >= 255)
       /\ (Running("argumentList") /\ f.pc = 1) =>
             ((\E k \in DOMAIN NewMessages : NewMessages[k] = TooManyArgumentsMessage)
                <=> f.v.argCount = 255)

\* C9: 255 parameters and 255 arguments are accepted, 256 of either are reported;
\* a call compiled without error has the number of its arguments as the operand
\* of its CALL, INVOKE or SUPER_INVOKE.
C9_Limits ==
    /\ [][CapacityIsReportedAt256]_vars
    /\ [](\A n \in LimitCounts :
            /\ (Done /\ source = ParameterSources[n]) =>
                  /\ functions[FunctionNamed("f")].arity = n
                  /\ IF n <= 255 THEN errlog = <<>> /\ result = ScriptFunction
                     ELSE Reported = <<TooManyParametersMessage>> /\ result = 0
            /\ (Done /\ source = ArgumentSources[n]) =>
                  /\ IF n <= 255
                     THEN /\ errlog = <<>> /\ result = ScriptFunction
                          /\ functions[1].code[Len(functions[1].code) - 3] = ArgB(n)
                     ELSE Reported = <<TooManyArgumentsMessage>> /\ result = 0
                  /\ functions[1].code[Len(functions[1].code) - 4] = OpB("OP_CALL")
                  /\ Cardinality(OpPositions(functions[1].code, {"OP_NIL"})) = n + 1)
    /\ []((Done /\ source = SrcCalls) =>
            LET code == functions[1].code
            IN /\ errlog = <<>>
               /\ [j \in 1..Len(code) |-> IF code[j].op \in {"OP_CALL", "OP_INVOKE"}
                                          THEN code[j + (IF code[j].op = "OP_CALL"
                                                         THEN 1 ELSE 2)].arg
                                          ELSE -1]
                    \in {ops \in [1..Len(code) -> -1..2] :
                           SelectSeq(ops, LAMBDA x : x # -1) = <<2, 2, 1>>})
    /\ []((Done /\ source = SrcSuperCallArgs) =>
            LET code == functions[FunctionNamed("greet")].code
            IN \A j \in OpPositions(code, {"OP_SUPER_INVOKE"}) : code[j + 2] = ArgB(2))

\* A function of exactly 255 parameters has been compiled, without error.
C9_Witness ==
    /\ Done /\ source = ParameterSources[MAX_ARITY]
    /\ errlog = <<>>
    /\ functions[FunctionNamed("f")].arity = 255

\* The calls of errorAt() a step has made, in order.
NewErrorCalls ==
    SelectSeq(SubSeq(errlog', Len(errlog) + 1, Len(errlog')),
              LAMBDA e : e.msg # "UB: locals[-1]")

\* The steps that assign false to parser.panicMode: synchronize(), and the entry
\* of compile().
ResetsPanicMode ==
    \/ Running("synchronize")
    \/ Running("compile") /\ stack[Len(stack)].pc = 0

\* A step in panic mode that does not reset it prints nothing and leaves both
\* flags alone, whatever calls of errorAt() it makes.
PanicModeSuppresses ==
    (parser.panicMode /\ ~ResetsPanicMode) =>
        /\ Stderr(errlog') = Stderr(errlog)
        /\ parser'.hadError = parser.hadError
        /\ parser'.panicMode

\* Of the calls of errorAt() a step makes the first prints exactly when panic
\* mode is off (or the step has reset it), the later ones never; after a call
\* both flags are set.
FirstErrorSetsBothFlags ==
    NewErrorCalls # <<>> =>
        /\ NewErrorCalls[1].printed = (~parser.panicMode \/ ResetsPanicMode)
        /\ \A k \in 2..Len(NewErrorCalls) : ~NewErrorCalls[k].printed
        /\ parser'.hadError /\ parser'.panicMode

\* C10: in panic mode errorAt() prints nothing and changes neither flag; out of
\* panic mode it sets both; only synchronize() and the entry of compile() leave
\* panic mode; panicMode implies hadError.
C10_PanicMode ==
    /\ [](parser.panicMode => parser.hadError)
    /\ [][PanicModeSuppresses]_vars
    /\ [][FirstErrorSetsBothFlags]_vars
    /\ [][(parser.panicMode /\ ~parser'.panicMode) => ResetsPanicMode]_vars
    /\ [][(ResetsPanicMode /\ NewErrorCalls = <<>>) => ~parser'.panicMode]_vars

\* An error has been printed and a later call of errorAt() suppressed, and the
\* parser is still in panic mode.
C10_Witness ==
    /\ parser.panicMode /\ parser.hadError
    /\ \E j, k \in 1..Len(errlog) :
          /\ j < k /\ errlog[j].printed /\ ~errlog[k].printed
          /\ errlog[k].msg # "UB: locals[-1]"
          /\ \A i \in j..k : errlog[i].msg # "UB: locals[-1]"
          /\ \A i \in (j + 1)..k : ~errlog[i].printed

\* The innermost slot of frame c that holds this name, -1 if none does.
InnermostSlot(c, name) ==
    LET slots == {j \in 0..(Len(compilers[c].locals) - 1) :
                    compilers[c].locals[j + 1].name = name}
    IN IF slots = {} THEN -1 ELSE CHOOSE j \in slots : \A k \in slots : k <= j

\* The nearest frame around frame c that has a local of this name, 0 if none.
RECURSIVE OwnerOf(_, _)
OwnerOf(c, name) ==
    LET e == compilers[c].enclosing
    IN IF e = 0 THEN 0
       ELSE IF InnermostSlot(e, name) # -1 THEN e
       ELSE OwnerOf(e, name)

\* After the step: the index in frame c of the upvalue that leads to this slot
\* of the frame `owner` around it, through the upvalues of the frames between;
\* -1 if some frame on the way has none.
RECURSIVE UpvalueFor(_, _, _)
UpvalueFor(c, owner, slot) ==
    LET e == compilers[c].enclosing
        want == IF e = owner THEN Upvalue(slot, TRUE)
                ELSE Upvalue(UpvalueFor(e, owner, slot), FALSE)
        count == functions'[compilers[c].function].upvalueCount
        at == {u \in 1..count : compilers'[c].upvalues[u] = want}
    IN IF at = {} THEN -1 ELSE (CHOOSE u \in at : TRUE) - 1

TooManyUpvaluesMessage == "Too many closure variables in function."

\* The instruction a step of namedVariable() has chosen: the getter it emitted, or
\* the setter it keeps for after the assigned expression.
NamedAccess ==
    IF Len(stack') < Len(stack)
    THEN LET new == Appended(current)
         IN [getter |-> TRUE, op |-> new[Len(new) - 1].op, arg |-> new[Len(new)].arg]
    ELSE [getter |-> FALSE, op |-> stack'[Len(stack)].v.setOp,
          arg |-> stack'[Len(stack)].v.arg]

UpvaluesUnchanged ==
    /\ \A c \in 1..Len(compilers) :
          /\ compilers'[c].upvalues = compilers[c].upvalues
          /\ \A j \in 1..Len(compilers[c].locals) :
                compilers'[c].locals[j].isCaptured = compilers[c].locals[j].isCaptured
    /\ \A f \in 1..Len(functions) : functions'[f].upvalueCount = functions[f].upvalueCount

\* The first step of namedVariable(name) resolves the name as a local of the
\* current frame, else through the chain of upvalues to the nearest frame that
\* has it, else as a global.
NameIsResolvedAlongTheChain ==
    LET name == stack[Len(stack)].v.name
        slot == InnermostSlot(current, name)
        owner == OwnerOf(current, name)
        access == NamedAccess
    IN (Running("namedVariable") /\ stack[Len(stack)].pc = 0
        /\ \A k \in DOMAIN NewMessages : NewMessages[k] # TooManyUpvaluesMessage) =>
          IF slot # -1
          THEN /\ access.op = (IF access.getter THEN "OP_GET_LOCAL" ELSE "OP_SET_LOCAL")
               /\ access.arg = slot
               /\ UpvaluesUnchanged
          ELSE IF owner = 0
          THEN /\ access.op = (IF access.getter THEN "OP_GET_GLOBAL" ELSE "OP_SET_GLOBAL")
               /\ UpvaluesUnchanged
          ELSE /\ access.op = (IF access.getter THEN "OP_GET_UPVALUE" ELSE "OP_SET_UPVALUE")
               /\ compilers'[owner].locals[InnermostSlot(owner, name) + 1].isCaptured
               /\ UpvalueFor(current, owner, InnermostSlot(owner, name)) # -1
               /\ access.arg = UpvalueFor(current, owner, InnermostSlot(owner, name))

\* The second step of namedVariable() emits the setter the first one chose.
SetterIsEmitted ==
    (Running("namedVariable") /\ stack[Len(stack)].pc = 1) =>
        Appended(current) = <<OpB(stack[Len(stack)].v.setOp), ArgB(stack[Len(stack)].v.arg)>>

RECURSIVE UpvalueBefore(_, _, _)
UpvalueBefore(c, owner, slot) ==
    LET e == compilers[c].enclosing
        want == IF e = owner THEN Upvalue(slot, TRUE)
                ELSE Upvalue(UpvalueBefore(e, owner, slot), FALSE)
        at == {u \in 1..Len(compilers[c].upvalues) : compilers[c].upvalues[u] = want}
    IN IF at = {} THEN -1 ELSE (CHOOSE u \in at : TRUE) - 1

\* The frames from c outwards.
RECURSIVE FrameChain(_)
FrameChain(c) == IF c = 0 THEN {} ELSE {c} \cup FrameChain(compilers[c].enclosing)

\* Every frame has at most 256 upvalues, as many as its function counts, and no
\* two of them are the same pair.
UpvaluesAreDistinct ==
    \A c \in 1..Len(compilers) :
        LET ups == compilers[c].upvalues
        IN /\ Len(ups) = functions[compilers[c].function].upvalueCount
           /\ Len(ups) \in 0..UINT8_COUNT
           /\ \A u, w \in 1..Len(ups) : ups[u] = ups[w] => u = w

\* No step changes or removes an upvalue a frame has; a step that reports the
\* overflow leaves the upvalues of a frame that had 256 as they were.
UpvaluesOnlyGrow ==
    /\ \A c \in 1..Len(compilers) :
          /\ Len(compilers'[c].upvalues) >= Len(compilers[c].upvalues)
          /\ SubSeq(compilers'[c].upvalues, 1, Len(compilers[c].upvalues))
                = compilers[c].upvalues
    /\ (\E k \in DOMAIN NewMessages : NewMessages[k] = TooManyUpvaluesMessage) =>
          \E c \in FrameChain(current) :
              /\ Len(compilers[c].upvalues) = UINT8_COUNT
              /\ compilers'[c].upvalues = compilers[c].upvalues
              /\ functions'[compilers[c].function].upvalueCount = UINT8_COUNT

\* Resolving a variable the current frame has captured already gives the index
\* it has and adds nothing to any frame.
CapturedAgainIsReused ==
    LET name == stack[Len(stack)].v.name
        owner == OwnerOf(current, name)
        before == UpvalueBefore(current, owner, InnermostSlot(owner, name))
    IN (/\ Running("namedVariable") /\ stack[Len(stack)].pc = 0
        /\ InnermostSlot(current, name) = -1 /\ owner # 0
        /\ before # -1) =>
          /\ NamedAccess.arg = before
          /\ \A c \in 1..Len(compilers) : compilers'[c].upvalues = compilers[c].upvalues
          /\ \A f \in 1..Len(functions) :
                functions'[f].upvalueCount = functions[f].upvalueCount
          /\ \A k \in DOMAIN NewMessages : NewMessages[k] # TooManyUpvaluesMessage

\* The last step of function() emits, into the chunk around, CLOSURE with its
\* constant and then one (is_local, index) pair per upvalue of the frame it ends.
ClosureListsTheUpvalues ==
    LET f == stack[Len(stack)]
        ups == compilers[current].upvalues
        new == Appended(compilers[current].enclosing)
    IN (Running("function") /\ f.pc = 1) =>
          /\ Len(new) = 2 + 2 * functions[compilers[current].function].upvalueCount
          /\ new[1] = OpB("OP_CLOSURE")
          /\ \A u \in 1..Len(ups) :
                /\ new[2 * u + 1] = ArgB(IF ups[u].isLocal THEN 1 ELSE 0)
                /\ new[2 * u + 2] = ArgB(ups[u].index)

\* The upvalues of i in `fun o(p1..pn) { fun m(q1..qk) { fun i() {..} } }`, where
\* m has captured p1..pn in this order: those of m, and then the q of m.
CapturesOfInner(n, k) ==
    [u \in 1..(n + k) |-> IF u <= n THEN Upvalue(u - 1, FALSE) ELSE Upvalue(u - n, TRUE)]

\* C12: the upvalues of a frame are pairwise distinct and at most 256; a captured
\* variable resolved again reuses its upvalue; the 256th distinct upvalue is
\* accepted, the 257th reported and not added; CLOSURE is followed by one pair
\* per upvalue, in the order of insertion.
C12_Upvalues ==
    /\ []UpvaluesAreDistinct
    /\ [][UpvaluesOnlyGrow /\ CapturedAgainIsReused /\ ClosureListsTheUpvalues]_vars
    /\ [](\A nk \in CaptureCounts :
            (Done /\ source = CaptureSources[nk]) =>
                LET i == CHOOSE c \in 1..Len(compilers) :
                            compilers[c].function = FunctionNamed("i")
                    all == CapturesOfInner(nk[1], nk[2])
                IN IF nk[1] + nk[2] <= UINT8_COUNT
                   THEN errlog = <<>> /\ compilers[i].upvalues = all
                   ELSE /\ Reported = <<TooManyUpvaluesMessage>>
                        /\ compilers[i].upvalues = SubSeq(all, 1, UINT8_COUNT)
                        /\ functions[FunctionNamed("i")].upvalueCount = UINT8_COUNT)

\* A function has been compiled that captures exactly 256 variables, without
\* error.
C12_Witness ==
    /\ Done /\ source = CaptureSources[<<UINT8_COUNT - 2, 2>>]
    /\ errlog = <<>>
    /\ functions[FunctionNamed("i")].upvalueCount = UINT8_COUNT

JumpOps == {"OP_JUMP", "OP_JUMP_IF_FALSE"}

\* The forward jumps of a chunk whose operand is still what emitJump() wrote.
\* (In the short chunks of Spec no patched jump has the distance 0xffff.)
Unpatched(code) ==
    {j \in OpPositions(code, JumpOps) : code[j + 1] = ArgB(255) /\ code[j + 2] = ArgB(255)}

\* A step rewrites no byte of a chunk but the operands of jumps that are not
\* patched yet, and those only in the chunk of the current frame; a jump it
\* patches is patched whole; bytes are otherwise only appended.
JumpsArePatchedOnce ==
    \A f \in 1..Len(functions) :
        LET old == functions[f].code
            new == functions'[f].code
            changed == {j \in 1..Len(old) : new[j] # old[j]}
        IN /\ Len(new) >= Len(old)
           /\ changed \subseteq UNION {{j + 1, j + 2} : j \in Unpatched(old)}
           /\ changed # {} => current # 0 /\ f = compilers[current].function
           /\ \A j \in Unpatched(old) :
                 j \in Unpatched(SubSeq(new, 1, Len(old))) \/
                    (new[j + 1] # ArgB(255) \/ new[j + 2] # ArgB(255))

\* A step appends a forward jump only to the chunk of the frame that is current
\* when the step begins or to none.
JumpsAreEmittedInTheCurrentFrame ==
    \A f \in 1..Len(functions) :
        (\E j \in OpPositions(functions'[f].code, JumpOps) : j > Len(functions[f].code))
            => current # 0 /\ f = compilers[current].function

\* The chunk of a frame that endCompiler() has left holds no unpatched jump.
FinishedChunksArePatched ==
    \A c \in 1..Len(compilers) :
        c \notin FrameChain(current) => Unpatched(functions[compilers[c].function].code) = {}

\* C13: every forward jump is patched once, in the chunk of the frame that emitted
\* it and while that frame is the current one, before the frame ends; no finished
\* chunk holds a JUMP or JUMP_IF_FALSE with the placeholder operand, whatever
\* errors the compilation has reported.
C13_JumpsPatched ==
    /\ []FinishedChunksArePatched
    /\ [][JumpsArePatchedOnce /\ JumpsAreEmittedInTheCurrentFrame]_vars
    /\ [](Done => \A f \in 1..Len(functions) : Unpatched(functions[f].code) = {})

\* A compilation with errors inside conditions, branches and bodies has ended
\* with all of its forward jumps patched.
C13_Witness ==
    /\ Done /\ source = SrcLoopErrors
    /\ Len(Stderr(errlog)) >= 2
    /\ Cardinality(OpPositions(functions[1].code, JumpOps)) >= 5
    /\ Unpatched(functions[1].code) = {}

\* `fun f(p1, ..., pn) { { var x; } }`
BlockSources == [n \in LimitCounts |-> SrcParameters(n, LexAll(<<"{", "var", "x", ";", "}">>))]

\* A step in which the current frame has run endScope().
EndScopeStep ==
    /\ current # 0 /\ current' = current
    /\ compilers'[current].scopeDepth = compilers[current].scopeDepth - 1

\* endScope() removes the locals deeper than the scope depth it leaves, and
\* emits CLOSE_UPVALUE or POP for each, from the top down.
EndScopeRemovesTheDeeper ==
    EndScopeStep =>
        /\ compilers'[current].locals =
              SelectSeq(compilers[current].locals,
                        LAMBDA l : l.depth <= compilers'[current].scopeDepth)
        /\ RemovedLocalsAreClosedOrPopped(current)
        /\ Cardinality(OpPositions(Appended(current), {"OP_POP", "OP_CLOSE_UPVALUE"}))
              >= Len(compilers[current].locals) - Len(compilers'[current].locals)

\* In `fun f(p1, ..., pn) { { var x; } }` the only scope that ends is the inner
\* block, and the only local declared in it is x.
EndScopeRemovesOnlyDeclaredThere ==
    (EndScopeStep /\ \E n \in LimitCounts : source = BlockSources[n]) =>
        \A j \in 1..Len(compilers[current].locals) :
            j > Len(compilers'[current].locals) => compilers[current].locals[j].name = "x"

\* C14: endScope() decrements the scope depth and removes exactly the locals
\* deeper than the new depth, which are the locals declared in the scope that
\* ends, with one CLOSE_UPVALUE or POP for each from the top down; the locals of
\* the scopes around stay, unchanged: after `fun f(p1..pn) { { var x; } }` the
\* frame of f still has its slot 0 and every parameter it had room for.
C14_EndScopeRemovesItsScope ==
    /\ [][EndScopeRemovesTheDeeper /\ EndScopeRemovesOnlyDeclaredThere]_vars
    /\ [](\A c \in 1..Len(compilers) : \A j \in 1..Len(compilers[c].locals) :
            c \in FrameChain(current) /\ compilers[c].locals[j].depth # -1 =>
                compilers[c].locals[j].depth <= compilers[c].scopeDepth)
    /\ [](\A n \in LimitCounts :
            (Done /\ source = BlockSources[n]) =>
                LET f == CHOOSE c \in 1..Len(compilers) :
                            compilers[c].function = FunctionNamed("f")
                IN /\ Len(compilers[f].locals) = IF n < UINT8_COUNT THEN n + 1 ELSE UINT8_COUNT
                   /\ \A j \in 2..Len(compilers[f].locals) :
                         compilers[f].locals[j] = Local(ParameterName(j - 1).lexeme, 1, FALSE))

TooManyLocalsMessage == "Too many local variables in function."

\* `fun f(p1, ..., pn) { var x; }`
VarSources == [n \in LimitCounts |-> SrcParameters(n, LexAll(<<"var", "x", ";">>))]

\* An activation that has called beginScope() and not yet the endScope() that
\* goes with it; function() never calls one.
FrameOpensScope(f) ==
    \/ f.fn = "statement" /\ f.pc = 1
    \/ f.fn = "forStatement" /\ f.pc # 0
    \/ f.fn = "classDeclaration"
          /\ (f.pc = 2 \/ (f.pc >= 3 /\ classCompilers[f.v.classCompiler].hasSuperclass))
    \/ f.fn = "function" /\ f.pc # 0

\* The scopes the current frame has open: those of its function() and of the
\* statements and class declarations under way in it.
OpenScopes ==
    LET bodies == {i \in 1..Len(stack) : stack[i].fn = "function" /\ stack[i].pc # 0}
        base == IF bodies = {} THEN 1 ELSE CHOOSE i \in bodies : \A k \in bodies : k <= i
    IN Cardinality({i \in base..Len(stack) : FrameOpensScope(stack[i])})

\* Every frame has between 1 and 256 locals, slot 0 first and at depth 0, and a
\* scope depth that is not negative; endScope() has never looked below slot 0.
LocalsAreInBounds ==
    /\ \A c \in 1..Len(compilers) :
          /\ Len(compilers[c].locals) \in 1..UINT8_COUNT
          /\ compilers[c].locals[1].name =
                (IF compilers[c].type = "TYPE_FUNCTION" THEN "" ELSE "this")
          /\ compilers[c].locals[1].depth = 0
          /\ compilers[c].scopeDepth >= 0
    /\ \A k \in 1..Len(errlog) : errlog[k].msg # "UB: locals[-1]"

\* The scope depth of the current frame is the number of scopes the activations
\* on the call stack have open in it: a statement or declaration that has
\* returned leaves the depth it found.
ScopesAreBalanced ==
    (current # 0 /\ stack # <<>>) => compilers[current].scopeDepth = OpenScopes

\* A step that reports a full frame adds no local to it.
FullFrameGetsNoLocal ==
    (\E k \in DOMAIN NewMessages : NewMessages[k] = TooManyLocalsMessage) =>
        /\ Len(compilers[current].locals) = UINT8_COUNT
        /\ Len(compilers'[current].locals) = UINT8_COUNT
        /\ \A j \in 1..UINT8_COUNT :
              compilers'[current].locals[j].name = compilers[current].locals[j].name

ThisOutsideClassMessage == "Can't use 'this' outside of a class."
LocalOps == {"OP_GET_LOCAL", "OP_SET_LOCAL"}
UpvalueOps == {"OP_GET_UPVALUE", "OP_SET_UPVALUE"}

\* Slot 0 of a frame: the empty name in a function, `this` in a method, an
\* initializer and the script; depth 0.
Slot0IsReserved ==
    \A c \in 1..Len(compilers) :
        /\ compilers[c].locals # <<>>
        /\ compilers[c].locals[1].depth = 0
        /\ compilers[c].locals[1].name =
              (CASE compilers[c].type = "TYPE_FUNCTION" -> ""
                 [] compilers[c].type \in {"TYPE_METHOD", "TYPE_INITIALIZER", "TYPE_SCRIPT"}
                      -> "this")

\* A reference that compiles to slot 0 of the current frame is a reference to
\* `this`, and the frame is not that of a function.
OnlyThisReadsSlot0 ==
    (/\ Running("namedVariable") /\ stack[Len(stack)].pc = 0
     /\ NamedAccess.op \in LocalOps /\ NamedAccess.arg = 0) =>
        /\ stack[Len(stack)].v.name = "this"
        /\ compilers[current].type # "TYPE_FUNCTION"

\* A step that captures slot 0 of a frame, or gives the frame inside it an
\* upvalue for that slot, resolves `this`, and the frame is not that of a function.
OnlyThisCapturesSlot0 ==
    \A c \in 1..Len(compilers) :
        (\/ compilers'[c].locals[1].isCaptured /\ ~compilers[c].locals[1].isCaptured
         \/ \E d \in 1..Len(compilers) :
               /\ compilers[d].enclosing = c
               /\ \E u \in 1..Len(compilers'[d].upvalues) :
                     u > Len(compilers[d].upvalues)
                       /\ compilers'[d].upvalues[u] = Upvalue(0, TRUE)) =>
            /\ Running("namedVariable") /\ stack[Len(stack)].pc = 0
            /\ stack[Len(stack)].v.name = "this"
            /\ compilers[c].type # "TYPE_FUNCTION"

\* parsePrecedence() on the token `this` with no class open reports it, emits
\* nothing, resolves nothing and goes on without calling namedVariable().
ThisOutsideClassIsReported ==
    (/\ Running("parsePrecedence") /\ stack[Len(stack)].pc = 0
     /\ parser.current.type = "TOKEN_THIS" /\ currentClass = 0) =>
        /\ NewMessages # <<>> /\ NewMessages[1] = ThisOutsideClassMessage
        /\ functions' = functions
        /\ compilers' = compilers
        /\ Len(stack') = Len(stack) /\ stack'[Len(stack)].fn = "parsePrecedence"

\* C16: slot 0 is reserved; only a reference to `this` compiles to slot 0 of a
\* frame or captures it, and only in a frame that is not a function's; `this`
\* with no class open is reported and emits no access; `this` in a function
\* nested in a method reaches the method's slot 0 through an upvalue.
C16_Slot0 ==
    /\ []Slot0IsReserved
    /\ [][OnlyThisReadsSlot0 /\ OnlyThisCapturesSlot0 /\ ThisOutsideClassIsReported]_vars
    /\ []((Done /\ source \in {SrcThisTop, SrcThisInFunction}) =>
            /\ Reported = <<ThisOutsideClassMessage>>
            /\ OpTotal(Len(functions), LocalOps \cup UpvalueOps) = 0
            /\ \A c \in 1..Len(compilers) :
                  compilers[c].upvalues = <<>> /\ ~compilers[c].locals[1].isCaptured)
    /\ []((Done /\ source = SrcThisNested) =>
            LET m == CHOOSE c \in 1..Len(compilers) :
                        compilers[c].function = FunctionNamed("m")
                g == CHOOSE c \in 1..Len(compilers) :
                        compilers[c].function = FunctionNamed("g")
            IN /\ errlog = <<>>
               /\ compilers[m].type = "TYPE_METHOD" /\ compilers[g].type = "TYPE_FUNCTION"
               /\ compilers[m].locals[1] = Local("this", 0, TRUE)
               /\ compilers[g].upvalues = <<Upvalue(0, TRUE)>>
               /\ SubSeq(functions[FunctionNamed("g")].code, 1, 2) =
                     <<OpB("OP_GET_UPVALUE"), ArgB(0)>>
               /\ OpPositions(functions[FunctionNamed("g")].code, LocalOps) = {})

\* `this` in a function nested in a method has been compiled to an upvalue of
\* the method's slot 0.
C16_Witness ==
    /\ Done /\ source = SrcThisNested /\ errlog = <<>>
    /\ \E c \in 1..Len(compilers) :
          /\ compilers[c].type = "TYPE_METHOD" /\ compilers[c].locals[1].isCaptured
          /\ \E d \in 1..Len(compilers) :
                /\ compilers[d].enclosing = c /\ compilers[d].type = "TYPE_FUNCTION"
                /\ compilers[d].upvalues = <<Upvalue(0, TRUE)>>

\* A step in which an activation of declaration() returns.
DeclarationReturns == Running("declaration") /\ Len(stack') < Len(stack)

\* C17, as stated: whenever declaration() returns, panic mode is off.
C17_PanicModeOffAfterDeclaration ==
    [][DeclarationReturns => ~parser'.panicMode]_vars

\* The tokens the scanner hands out in a step.
Scanned == SubSeq(source, scanPos + 1, scanPos')

SyncKeywords ==
    {"TOKEN_CLASS", "TOKEN_FUN", "TOKEN_VAR", "TOKEN_FOR", "TOKEN_IF", "TOKEN_WHILE",
     "TOKEN_PRINT", "TOKEN_RETURN"}

\* synchronize() leaves panic mode on exactly when it has skipped an ERROR token,
\* whose message it has printed; it stops behind a `;`, before a keyword that
\* begins a statement, or at the end of the text.
SynchronizeClearsUnlessScanError ==
    Running("synchronize") =>
        /\ parser'.panicMode = (\E k \in 1..Len(Scanned) : Scanned[k].type = "TOKEN_ERROR")
        /\ parser'.panicMode =>
              /\ NewErrorCalls # <<>> /\ NewErrorCalls[1].printed
              /\ \E k \in 1..Len(Scanned) :
                    Scanned[k] = Token("TOKEN_ERROR", NewErrorCalls[1].msg)
        /\ \/ parser'.previous.type = "TOKEN_SEMICOLON"
           \/ parser'.current.type \in SyncKeywords
           \/ parser'.current.type = "TOKEN_EOF"

\* declaration() returns in panic mode only from its call of synchronize(), with
\* the panic mode synchronize() left.
DeclarationReturnsAsSynchronized ==
    DeclarationReturns =>
        /\ parser'.panicMode = parser.panicMode
        /\ parser.panicMode => stack[Len(stack)].pc = 2

\* C17, amended: declaration() returns with panic mode off unless synchronize()
\* has skipped an ERROR token, which advance() reports, setting panic mode again
\* after synchronize() cleared it; the first error of the next declaration is
\* printed exactly when panic mode is off; synchronize() stops behind `;`,
\* before class/fun/var/for/if/while/print/return, or at EOF.
C17_PanicModeOffUnlessScanError ==
    /\ [][SynchronizeClearsUnlessScanError /\ DeclarationReturnsAsSynchronized]_vars
    /\ [][(Running("declaration") /\ stack[Len(stack)].pc = 0 /\ NewErrorCalls # <<>>)
            => NewErrorCalls[1].printed = ~parser.panicMode]_vars
    /\ []((Done /\ source = SrcSyncOverError) =>
            errlog = <<[msg |-> "Expect ';' after expression.", printed |-> TRUE],
                       [msg |-> "Unexpected character.", printed |-> TRUE],
                       [msg |-> "Expect expression.", printed |-> FALSE]>>)

\* A declaration has returned in panic mode, after synchronize() skipped an
\* ERROR token, and the declaration after it is under way.
C17_Witness ==
    /\ source = SrcSyncOverError
    /\ parser.panicMode
    /\ Stderr(errlog) = <<[msg |-> "Expect ';' after expression.", printed |-> TRUE],
                          [msg |-> "Unexpected character.", printed |-> TRUE]>>
    /\ parser.previous.type = "TOKEN_SEMICOLON" /\ parser.current.type = "TOKEN_PLUS"
    /\ Len(stack) = 2 /\ stack[2] = Frame("declaration", 0, NoLocals)

\* The step of function() that ends the frame and emits OP_CLOSURE.
FunctionEnds == Running("function") /\ stack[Len(stack)].pc = 1

\* Between two steps of a compilation, every function object created so far is
\* the function of a frame on the chain or a constant of a protected function.
CreatedFunctionsAreProtected ==
    current # 0 => \A f \in 1..Len(functions) : f \in Protected(St)

\* Within a step that ends no frame, what is protected stays protected.
ProtectionGrows ==
    (~FunctionEnds /\ current' # 0) => Protected(St) \subseteq Protected(St')

\* The function endCompiler() has returned, at the allocation with which
\* addConstant() grows the constant pool of the enclosing chunk.
ReturnedFunctionIsProtected ==
    FunctionEnds => Cur(St).function \in Protected(endCompiler(St))

\* C18: at every allocation of compile(), each function object the compiler
\* holds is the function of a frame on the current chain or a constant of such
\* a function, the function endCompiler() returned included while it is added
\* to the constant pool of the enclosing chunk.
C18_FunctionsAreProtected ==
    /\ []CreatedFunctionsAreProtected
    /\ [][ProtectionGrows]_vars
    /\ [][ReturnedFunctionIsProtected]_vars

\* What holds of C18: everything but the function endCompiler() returned and
\* the functions only its chunk keeps, protected again once it is stored.
C18_AllButTheReturnedFunction ==
    /\ []CreatedFunctionsAreProtected
    /\ [][ProtectionGrows]_vars
    /\ [][FunctionEnds =>
            /\ Cur(St).function \notin Protected(endCompiler(St))
            /\ \A f \in 1..Len(functions) :
                  f \in Protected(endCompiler(St)) \cup Trace(St, {Cur(St).function})
            /\ Cur(St).function \in ConstantFunctions(St', compilers'[current'].function)]_vars

\* A step is possible exactly while compile() has not returned: the running
\* activation is that of one of the functions.
Functions ==
    {"compile", "declaration", "synchronize", "classDeclaration", "method",
     "funDeclaration", "function", "varDeclaration", "statement",
     "expressionStatement", "printStatement", "returnStatement", "ifStatement",
     "whileStatment", "forStatement", "block", "parsePrecedence", "namedVariable",
     "unary", "binary", "grouping", "call", "argumentList", "dot", "and_", "or_",
     "super_"}

\* compile() run to its end: weak fairness of Next, a step being enabled
\* exactly when compile() has not returned.
SpecLive == Init /\ [][Next]_vars /\ ([]<>Done \/ []<><<Next>>_vars)

\* The tokens of the text that have been consumed: all that the scanner has
\* handed out but the current one, which is still ahead unless it is EOF.
Taken(pos, p) == IF pos = 0 \/ p.current.type = "TOKEN_EOF" THEN pos ELSE pos - 1

\* The step consumes at least one token of the text.
Consumes == Taken(scanPos', parser') > Taken(scanPos, parser)

\* The step calls fn: a new activation of it is on top of the caller.
Calls(fn) ==
    /\ Len(stack') = Len(stack) + 1
    /\ stack'[Len(stack')].fn = fn /\ stack'[Len(stack')].pc = 0

\* The scanner only moves forward, and the current token changes only when a
\* token is taken, or to the EOF the scanner yields at the end of the text.
ScannerMovesForward ==
    /\ scanPos' >= scanPos
    /\ scanPos' = scanPos =>
          \/ parser'.current = parser.current
          \/ scanPos = Len(source) /\ parser'.current = EofToken

\* The loops of compile(), block() and classDeclaration() begin a turn only
\* before a token that is not EOF (nor `}` in a block or a class body).
LoopsTurnBeforeAToken ==
    /\ (Running("compile") /\ Calls("declaration")) => parser.current.type # "TOKEN_EOF"
    /\ (Running("block") /\ Calls("declaration")) =>
          parser.current.type \notin {"TOKEN_EOF", "TOKEN_RIGHT_BRACE"}
    /\ (Running("classDeclaration") /\ Calls("method")) =>
          parser'.current.type \notin {"TOKEN_EOF", "TOKEN_RIGHT_BRACE"}

\* A declaration takes the token it begins at: declaration() and statement()
\* match it or pass it on, and parsePrecedence() begins with advance().
DeclarationConsumes ==
    /\ (Running("declaration") /\ stack[Len(stack)].pc = 0) => (Consumes \/ Calls("statement"))
    /\ (Running("statement") /\ stack[Len(stack)].pc = 0) =>
          (Consumes \/ (stack'[Len(stack')].fn = "expressionStatement" /\ scanPos' = scanPos))
    /\ (Running("expressionStatement") /\ stack[Len(stack)].pc = 0) =>
          (Calls("parsePrecedence") /\ scanPos' = scanPos)
    /\ (Running("parsePrecedence") /\ stack[Len(stack)].pc = 0) =>
          (Consumes \/ parser.current.type = "TOKEN_EOF")

\* block() returns behind the `}` it has taken, or at EOF: so does a method.
BlockEndsBehindBraceOrAtEof ==
    (Running("block") /\ Len(stack') < Len(stack)) =>
        (Consumes \/ parser.current.type = "TOKEN_EOF")

\* A further turn of the parameter loop, of the argument loop or of the infix
\* loop of parsePrecedence() has taken a token.
ListAndInfixLoopsConsume ==
    /\ (Running("function") /\ stack[Len(stack)].pc = 2 /\ Len(stack') = Len(stack)
           /\ stack'[Len(stack')].pc = 2) => Consumes
    /\ (Running("argumentList") /\ stack[Len(stack)].pc = 1 /\ Len(stack') > Len(stack))
          => Consumes
    /\ (Running("parsePrecedence") /\ stack[Len(stack)].pc = 1 /\ Len(stack') > Len(stack))
          => Consumes

\* advance() stops at the first token that is not an ERROR token.
AdvanceStopsAtFirstToken ==
    (scanPos' > scanPos \/ parser'.current # parser.current) =>
        /\ parser'.current.type # "TOKEN_ERROR" /\ parser'.previous.type # "TOKEN_ERROR"
        /\ \/ scanPos' = Len(source) /\ parser'.current = EofToken
           \/ scanPos' > 0 /\ parser'.current = source[scanPos']

RECURSIVE ChainFrom(_)
ChainFrom(c) == IF c = 0 THEN <<>> ELSE <<c>> \o ChainFrom(compilers[c].enclosing)

\* The class scopes from class scope c outwards, innermost first.
RECURSIVE ClassChainFrom(_)
ClassChainFrom(c) ==
    IF c = 0 THEN <<>> ELSE <<c>> \o ClassChainFrom(classCompilers[c].enclosing)

\* The frames of the activations of compile() and function() that have pushed
\* theirs, and the class scopes of those of classDeclaration(), outermost first.
PushedFrames ==
    LET on == SelectSeq(stack, LAMBDA f : f.fn \in {"compile", "function"} /\ f.pc >= 1)
    IN [i \in 1..Len(on) |-> on[i].v.compiler]

PushedClasses ==
    LET on == SelectSeq(stack, LAMBDA f : f.fn = "classDeclaration" /\ f.pc >= 1)
    IN [i \in 1..Len(on) |-> on[i].v.classCompiler]

Reversed(q) == [i \in 1..Len(q) |-> q[Len(q) + 1 - i]]

\* The chains are those of the activations under way, on every path.
ChainsFollowTheActivations ==
    /\ ChainFrom(current) = Reversed(PushedFrames)
    /\ ClassChainFrom(currentClass) = Reversed(PushedClasses)

\* function() and classDeclaration() return with the pointer they found.
ReturnsRestoreThePointers ==
    /\ FunctionEnds =>
          /\ current = stack[Len(stack)].v.compiler
          /\ current' = compilers[current].enclosing
          /\ currentClass' = currentClass
    /\ (Running("classDeclaration") /\ Len(stack') < Len(stack)) =>
          /\ currentClass = stack[Len(stack)].v.classCompiler
          /\ currentClass' = classCompilers[currentClass].enclosing
          /\ current' = current

\* The functions of the first and of the second compile(), in order of creation.
RunLength == Len(functions) \div 2

\* The same constant, but for the identity of a function object.
SameConstant(a, b) ==
    /\ a.kind = b.kind /\ a.text = b.text
    /\ a.kind = "function" => b.obj = a.obj + RunLength

SameChunks ==
    /\ Len(functions) = 2 * RunLength
    /\ \A i \in 1..RunLength :
          LET a == functions[i]
              b == functions[i + RunLength]
          IN /\ a.code = b.code
             /\ a.arity = b.arity /\ a.upvalueCount = b.upvalueCount /\ a.name = b.name
             /\ Len(a.constants) = Len(b.constants)
             /\ \A k \in 1..Len(a.constants) : SameConstant(a.constants[k], b.constants[k])

\* The second compile() has returned.
DoneTwice == Done /\ Cardinality(ScriptFrames) = 2

\* C20: frames and class scopes follow stack discipline on every path; when
\* compile() returns, with a function or with NULL, the current frame and the
\* current class scope are NULL again; a second compile() of the same text
\* produces the same chunks and the same result.
C20_StackDiscipline ==
    /\ []ChainsFollowTheActivations
    /\ [](Done => current = 0 /\ currentClass = 0)
    /\ [](DoneTwice =>
            /\ SameChunks
            /\ result = CompileResult(parser.hadError, RunLength + 1))
    /\ [][ReturnsRestoreThePointers]_vars
    /\ [][Recompile => (result = CompileResult(parser.hadError, 1))]_vars

\* A class with a method that holds a function has been compiled twice.
C20_Witness ==
    /\ DoneTwice /\ source = SrcThisNested
    /\ result = RunLength + 1 /\ RunLength >= 3
====
